---------------------------- MODULE Spec2Model ----------------------------
(***************************************************************************)
(* A model of the streaming path of transcribe-audio                       *)
(* (src/streaming_transcription.py): the reconnecting session manager      *)
(* manage_streaming_with_reconnect, the session manage_streaming with its  *)
(* three tasks (send_audio_chunks, handle_incoming_transcriptions,         *)
(* audio_bridge), the connection handle returned by websockets.connect,    *)
(* and the capture queue filled by the sounddevice callback.               *)
(*                                                                         *)
(* Every await of the source is a suspension point; the code that runs     *)
(* between two awaits of one coroutine is one action.  The peer, the       *)
(* capture callback and the operator (task cancellation) are the           *)
(* environment.                                                            *)
(*                                                                         *)
(* The specifications share the actions:                                   *)
(*   Spec      asyncio.run(manage_streaming_with_reconnect())              *)
(*   FairSpec  Spec with the event loop's fairness                         *)
(*   SendSpec  send_audio_chunks(ws, audio_source) called on its own with  *)
(*             a preloaded queue (tests/test_integration_streaming_...)    *)
(*   RecvSpec  handle_incoming_transcriptions(ws) called on its own with   *)
(*             a scripted message stream (tests/test_streaming_...)        *)
(*                                                                         *)
(* and of its segment path (src/main.py with                               *)
(* src/transcribe_service/vad_processing.py), each function started on its *)
(* own with inputs drawn from bounded sets:                                *)
(*   VadSpec       vad_collector over a classified frame sequence          *)
(*   FairVadSpec   VadSpec with the consumer driving the generator         *)
(*   FrameSpec     VoiceActivityDetector.frame_generator                   *)
(*   IsSpeechSpec  VoiceActivityDetector.is_speech                         *)
(*   BatchSpec     the collecting loop of process_audio_segment            *)
(***************************************************************************)
EXTENDS Integers, Sequences, FiniteSets, TLC

VARIABLES
    mgrPc,        \* manage_streaming_with_reconnect: the await it is suspended at
    delay,        \* its local `delay`
    waits,        \* the arguments of the asyncio.sleep(delay) calls made so far
    ws,           \* the connection handle of the current session
    leaked,       \* handles no longer referenced by any frame and never closed
    sent,         \* messages accepted by ws.send on the current handle, in order
    inbound,      \* messages the peer has still to deliver on the handle
    cancelReq,    \* task.cancel() was called on the running coroutine
    sendPc,       \* send_audio_chunks: the await it is suspended at
    chunk,        \* its local `chunk` (its length)
    offset,       \* its local `offset`
    sendErrorLogged, \* logger.error("Error sending audio chunk") was called
    recvPc,       \* handle_incoming_transcriptions: position
    transcript,   \* its local `transcript`
    output,       \* the lines it has printed or logged, in order
    bridgePc,     \* audio_bridge: position
    audio_queue,  \* transcribe_service.audio_capture.audio_queue (queue.Queue)
    audio_source, \* the asyncio.Queue created by manage_streaming
    captured,     \* number of capture callbacks so far
    frame_duration_ms,   \* the frame duration given to the detector / collector
    padding_duration_ms, \* vad_collector: its argument of that name
    frames,       \* vad_collector: the classifier's answer for each input frame
    vadPc,        \* vad_collector: position of the generator
    consumed,     \* vad_collector: frames taken by `for frame in frames`
    ring_buffer,  \* vad_collector: its deque of (frame, is_speech)
    triggered,    \* vad_collector: its local `triggered`
    voiced_frames, \* vad_collector: its local `voiced_frames`
    yielded,      \* vad_collector: the segments it has yielded, in order
    audio,        \* frame_generator / is_speech: len(audio)
    sample_rate,  \* frame_generator / is_speech: argument of that name
    fgPc,         \* frame_generator: position of the generator
    fgOffset,     \* frame_generator: the loop variable `offset`
    fgFrames,     \* frame_generator: the slices it has yielded, in order
    isPc,         \* is_speech: position
    speech_frames, \* is_speech: its local `speech_frames`
    classified,   \* is_speech: frames its loop has classified
    is_speech_result, \* is_speech: the value it returned
    batchPc,      \* process_audio_segment: position
    main_audio_queue, \* main.audio_queue (queue.Queue), chunks by sample count
    collected_frames, \* process_audio_segment: its local of that name
    segments,     \* process_audio_segment: its local list of chunks
    batches,      \* the batches its collecting loop has ended with, in order
    vad_calls,    \* vad_collector: the frames given to vad.is_speech, in order
    idle_waits,   \* process_audio_segment: waits that timed out with no chunk
    enqueued,     \* the chunks enque_audio has put on main.audio_queue, in order
    convPc,       \* the float-to-PCM conversion: position
    sample,       \* a float32 sample of a chunk, in units of 1 / SampleDenominator
    pcm,          \* the int16 value the conversion gives for it
    apiPc,        \* transcribe_audio: position
    service,      \* what the transcription service does on each call
    attempt,      \* transcribe_audio: its local `attempt`
    retry_delay,  \* transcribe_audio: its local `delay`
    api_calls,    \* calls of client.audio.transcriptions.create so far
    api_sleeps,   \* the arguments of its time.sleep calls, in order
    api_result,   \* the value transcribe_audio returned
    devPc,        \* main: position in the device selection
    devices,      \* sd.query_devices(): for each device, whether it has inputs
    default_input_idx, \* sd.default.device[0]
    choice,       \* what the user typed at the device prompt
    device_to_use_index, \* main: its local of that name
    wirePc,       \* the capture-to-wire path: position of send_audio_chunks
    wire_queue,   \* audio_capture.audio_queue, each item with its dtype
    wire_source,  \* the asyncio.Queue of manage_streaming, likewise
    wire_chunk,   \* send_audio_chunks: its local `chunk`, with its dtype
    wire_offset,  \* send_audio_chunks: its local `offset`
    wire_sent,    \* the payloads given to ws.send, with the encoded buffer
    received,     \* the frames the `async for` has delivered so far, in order
    pipePc,       \* process_audio_segment after a batch: position
    vad_module,   \* the file `import vad` of main.py is bound to
    batch,        \* the batch at hand: its frames and its voiced segments
    prev_transcript, \* process_audio_segment: its local of that name
    pipe_calls,   \* the calls of client.audio.transcriptions.create, in order
    pipe_done     \* batches the worker has taken so far

\* the variables of the streaming path
streamVars == << mgrPc, delay, waits, ws, leaked, sent, inbound, cancelReq,
                 sendPc, chunk, offset, sendErrorLogged, recvPc, transcript,
                 output, bridgePc, audio_queue, audio_source, captured >>

\* the variables of the segment path (main.py and the voice activity code)
vadVars   == << padding_duration_ms, frames, vadPc, consumed, ring_buffer,
                triggered, voiced_frames, yielded, vad_calls >>
fgVars    == << audio, sample_rate, fgPc, fgOffset, fgFrames >>
isVars    == << isPc, speech_frames, classified, is_speech_result >>
batchVars == << batchPc, main_audio_queue, collected_frames, segments,
                batches, idle_waits, enqueued >>
convVars  == << convPc, sample, pcm >>
apiVars   == << apiPc, service, attempt, retry_delay, api_calls, api_sleeps,
                api_result >>
devVars   == << devPc, devices, default_input_idx, choice,
                device_to_use_index >>
\* the functions that are each studied on their own
wireVars  == << wirePc, wire_queue, wire_source, wire_chunk, wire_offset,
                wire_sent >>
pipeVars  == << pipePc, vad_module, batch, prev_transcript, pipe_calls,
                pipe_done >>
restVars  == << wireVars, received, pipeVars >>
unitVars  == << convVars, apiVars, devVars, restVars >>
vadPathVars == << frame_duration_ms, vadVars, fgVars, isVars, batchVars >>
segmentVars == << vadPathVars, unitVars >>

vars == << streamVars, segmentVars >>

mgrVars  == << mgrPc, delay, waits >>
sendVars == << sendPc, chunk, offset, sendErrorLogged >>
recvVars == << recvPc, transcript, output >>

-----------------------------------------------------------------------------
(* Bounds of the model *)

\* failed sessions followed (the 7th wait is the first capped one)
MaxReconnects == 7
\* handles left open by failed configuration sends that are followed
MaxLeaked == 1
\* capture callbacks followed in Spec
MaxChunks == 1
\* length of the peer's message script in Spec
MaxSessionMsgs == 1
\* length of the peer's message script in RecvSpec
MaxMessages == 2
\* chunk lengths tried in SendSpec: multiples of LenUnit up to MaxLenUnits
MaxLenUnits == 18
LenUnit == 512
\* chunks preloaded in SendSpec
MaxPreload == 1

(* Program constants *)
max_delay == 60
max_chunk_size == 4096
overlap_size == 512

Min(a, b) == IF a < b THEN a ELSE b

RECURSIVE Pow2(_)
Pow2(n) == IF n = 0 THEN 1 ELSE 2 * Pow2(n - 1)

SeqsUpTo(S, n) == UNION { [1..k -> S] : k \in 0..n }

-----------------------------------------------------------------------------
(* Messages *)

UpdateType    == "transcription_session.update"
AppendType    == "input_audio_buffer.append"
CreatedType   == "transcription_session.created"
UpdatedType   == "transcription_session.updated"
DeltaType     == "conversation.item.input_audio_transcription.delta"
CompletedType == "conversation.item.input_audio_transcription.completed"

\* the payload built by connect_transcription_session
initial_payload == [type |-> UpdateType, off |-> 0, len |-> 0]

\* the payload built by send_audio_chunks for chunk[off : off + n]
AppendPayload(off, n) == [type |-> AppendType, off |-> off, len |-> n]

\* A JSON field: absent, a string (a sequence of characters), or a value of
\* another JSON type (number, null, list, object).
Absent    == [kind |-> "absent", text |-> << >>]
NonString == [kind |-> "nonstr", text |-> << >>]
Str(s)    == [kind |-> "str", text |-> s]
Texts     == { << >>, <<"a">>, <<"b">> }
FieldVals == { Absent, NonString } \cup { Str(s) : s \in Texts }

\* An inbound frame: text that is not JSON, JSON that is not an object, or an
\* object with its "type", "delta" and "transcript" members.
Msg(j, t, d, f) == [json |-> j, type |-> t, delta |-> d, transcript |-> f]
InvalidJson == Msg("invalid", "", Absent, Absent)
NonObject   == Msg("nonobject", "", Absent, Absent)
Object(t, d, f) == Msg("object", t, d, f)

Messages ==
    { InvalidJson, NonObject }
    \cup { Object(t, Absent, Absent) :
             t \in { CreatedType, UpdatedType, "some.other.event",
                     "<absent>", "<not a string>" } }
    \cup { Object(DeltaType, d, Absent) : d \in FieldVals }
    \cup { Object(CompletedType, Absent, f) : f \in FieldVals }

\* the messages the peer sends in Spec
SessionMessages ==
    { Object(DeltaType, Str(<<"a">>), Absent),
      Object(CompletedType, Absent, Str(<<"b">>)),
      InvalidJson }


-----------------------------------------------------------------------------
(* handle_incoming_transcriptions: the body of the `async for` loop *)

\* data.get(key, ""): the member's value, or "" when the member is absent
GetOrEmpty(v) == IF v.kind = "absent" THEN Str(<< >>) ELSE v

\* a line of output: what was printed or logged, and the text it carries
Line(k, t) == [kind |-> k, text |-> t]
ErrorLine == Line("Error processing message", << >>)

FinalTextOnly(t, f) == f

\* transcript += final_transcript: the text printed as the final transcription
FinalText(t, f) == t \o f

\* a completed message that does not clear the running transcript
ProcessMessageKeepsTranscript(t, m) ==
    IF m.json # "object"
    THEN [transcript |-> t, raised |-> TRUE, line |-> ErrorLine]
    ELSE IF m.type = CreatedType
    THEN [transcript |-> t, raised |-> FALSE, line |-> Line("Session created", << >>)]
    ELSE IF m.type = UpdatedType
    THEN [transcript |-> t, raised |-> FALSE, line |-> Line("Session updated", << >>)]
    ELSE IF m.type = DeltaType
    THEN LET d == GetOrEmpty(m.delta) IN
         IF d.kind = "str"
         THEN [transcript |-> t \o d.text, raised |-> FALSE,
               line |-> Line("Delta transcription", d.text)]
         ELSE [transcript |-> t, raised |-> TRUE, line |-> ErrorLine]
    ELSE IF m.type = CompletedType
    THEN LET f == GetOrEmpty(m.transcript) IN
         IF f.kind = "str"
         THEN [transcript |-> t \o f.text, raised |-> FALSE,
               line |-> Line("Final transcription", t \o f.text)]
         ELSE [transcript |-> t, raised |-> TRUE, line |-> ErrorLine]
    ELSE [transcript |-> t, raised |-> FALSE, line |-> Line("Unknown message", << >>)]

\* One pass through the inner try block with running transcript t and frame
\* m: the new running transcript, whether an exception reached the inner
\* `except Exception`, and the line printed or logged.
\*   json.loads raises on text that is not JSON; data.get raises
\*   AttributeError on a value that is not an object; `transcript += x`
\*   raises TypeError, before assigning, when x is not a string.
ProcessMessage(t, m) ==
    IF m.json # "object"
    THEN [transcript |-> t, raised |-> TRUE, line |-> ErrorLine]
    ELSE IF m.type = CreatedType
    THEN [transcript |-> t, raised |-> FALSE, line |-> Line("Session created", << >>)]
    ELSE IF m.type = UpdatedType
    THEN [transcript |-> t, raised |-> FALSE, line |-> Line("Session updated", << >>)]
    ELSE IF m.type = DeltaType
    THEN LET d == GetOrEmpty(m.delta) IN
         IF d.kind = "str"
         THEN [transcript |-> t \o d.text, raised |-> FALSE,
               line |-> Line("Delta transcription", d.text)]
         ELSE [transcript |-> t, raised |-> TRUE, line |-> ErrorLine]
    ELSE IF m.type = CompletedType
    THEN LET f == GetOrEmpty(m.transcript) IN
         IF f.kind = "str"
         THEN [transcript |-> << >>, raised |-> FALSE,
               line |-> Line("Final transcription", FinalText(t, f.text))]
         ELSE [transcript |-> t, raised |-> TRUE, line |-> ErrorLine]
    ELSE [transcript |-> t, raised |-> FALSE, line |-> Line("Unknown message", << >>)]

\* an exception of the loop body that leaves the loop
AfterMessageErrorEscapes == "returned"

\* where the duty is after the inner `except Exception` has printed the error:
\* at the next iteration of the `async for`
AfterMessageError == "iter"

\* the `async for` delivers the next frame and the loop body runs
Receive ==
    /\ recvPc = "iter"
    /\ ~cancelReq
    /\ ws = "open"
    /\ inbound # << >>
    /\ LET r == ProcessMessage(transcript, Head(inbound)) IN
         /\ transcript' = r.transcript
         /\ output' = Append(output, r.line)
         /\ recvPc' = IF r.raised THEN AfterMessageError ELSE "iter"
    /\ inbound' = Tail(inbound)
    /\ received' = Append(received, Head(inbound))
    /\ UNCHANGED << vadPathVars, convVars, apiVars, devVars, wireVars,
                    pipeVars, mgrVars,
                    ws, leaked, sent, cancelReq, sendVars, bridgePc,
                    audio_queue, audio_source, captured >>

\* the message stream ends (ConnectionClosedOK ends the iteration,
\* ConnectionClosedError is caught by the outer `except Exception`, which
\* prints it): the coroutine returns
RecvEnd ==
    /\ recvPc = "iter"
    /\ ~cancelReq
    /\ ws = "lost"
    /\ recvPc' = "returned"
    /\ UNCHANGED << segmentVars, mgrVars, ws, leaked, sent, inbound, cancelReq, sendVars,
                    transcript, output, bridgePc, audio_queue, audio_source, captured >>

-----------------------------------------------------------------------------
(* send_audio_chunks *)

PartLenWhole(c, off) == c - off

\* chunk[off : off + max_chunk_size] of a chunk of length c
PartLen(c, off) == Min(max_chunk_size, c - off)

\* an advance by the whole part size
AdvanceNoOverlap(off) == off + max_chunk_size

\* offset += (max_chunk_size - overlap_size) if max_chunk_size > overlap_size
\*           else max_chunk_size
Advance(off) ==
    IF max_chunk_size > overlap_size
    THEN off + (max_chunk_size - overlap_size)
    ELSE off + max_chunk_size

\* the outcomes of `await ws.send(...)`: TRUE when the message is accepted,
\* FALSE when it raises.  On a lost connection it raises ConnectionClosed;
\* on an open one it may still raise (the source catches any Exception).
SendOutcomes == IF ws = "open" THEN { TRUE, FALSE } ELSE { FALSE }

\* audio_source.get() returns a chunk; an empty chunk is skipped with a short
\* sleep, another one enters the inner loop at offset 0
SendGet ==
    /\ sendPc = "get"
    /\ ~cancelReq
    /\ audio_source # << >>
    /\ chunk' = Head(audio_source)
    /\ audio_source' = Tail(audio_source)
    /\ IF Head(audio_source) = 0
       THEN sendPc' = "sleep" /\ offset' = offset
       ELSE sendPc' = "send" /\ offset' = 0
    /\ UNCHANGED << segmentVars, mgrVars, ws, leaked, sent, inbound, cancelReq,
                    sendErrorLogged, recvVars, bridgePc, audio_queue, captured >>

\* asyncio.sleep(0.01) returns; continue
SendSleepDone ==
    /\ sendPc = "sleep"
    /\ ~cancelReq
    /\ sendPc' = "get"
    /\ UNCHANGED << segmentVars, mgrVars, ws, leaked, sent, inbound, cancelReq, chunk, offset,
                    sendErrorLogged, recvVars, bridgePc, audio_queue,
                    audio_source, captured >>

\* ws.send of the part at `offset` returns: the offset advances and the inner
\* loop goes on while offset < len(chunk)
SendPartOk ==
    /\ sendPc = "send"
    /\ ~cancelReq
    /\ TRUE \in SendOutcomes
    /\ sent' = Append(sent, AppendPayload(offset, PartLen(chunk, offset)))
    /\ offset' = Advance(offset)
    /\ sendPc' = IF Advance(offset) < chunk THEN "send" ELSE "get"
    /\ UNCHANGED << segmentVars, mgrVars, ws, leaked, inbound, cancelReq, chunk,
                    sendErrorLogged, recvVars, bridgePc, audio_queue,
                    audio_source, captured >>

\* ws.send raises: the error is logged and `break` leaves the inner loop; the
\* outer `while True` goes on with the next chunk
SendPartRaises ==
    /\ sendPc = "send"
    /\ ~cancelReq
    /\ FALSE \in SendOutcomes
    /\ sendErrorLogged' = TRUE
    /\ sendPc' = "get"
    /\ UNCHANGED << segmentVars, mgrVars, ws, leaked, sent, inbound, cancelReq, chunk, offset,
                    recvVars, bridgePc, audio_queue, audio_source, captured >>

-----------------------------------------------------------------------------
(* audio_bridge *)

\* audio_queue is not empty: item = audio_queue.get(); audio_source.put(item)
\* (the asyncio.Queue is unbounded, put does not suspend).  With an empty
\* audio_queue the bridge sleeps 0.01 s and polls again, changing nothing.
BridgeForward ==
    /\ bridgePc = "poll"
    /\ ~cancelReq
    /\ audio_queue # << >>
    /\ audio_source' = Append(audio_source, Head(audio_queue))
    /\ audio_queue' = Tail(audio_queue)
    /\ UNCHANGED << segmentVars, mgrVars, ws, leaked, sent, inbound, cancelReq, sendVars,
                    recvVars, bridgePc, captured >>

-----------------------------------------------------------------------------
(* manage_streaming_with_reconnect, manage_streaming and                   *)
(* connect_transcription_session                                           *)

\* a doubling without the cap
NextDelayUncapped(d) == d * 2

\* delay = min(delay * 2, max_delay)
NextDelay(d) == Min(d * 2, max_delay)

\* the tasks manage_streaming creates, each suspended at its first await
StartDuties ==
    /\ audio_source' = << >>
    /\ bridgePc' = "poll"
    /\ sendPc' = "get"
    /\ recvPc' = "iter"
    /\ transcript' = << >>

\* websockets.connect returns a handle and ws.send(initial_payload) is awaited;
\* the duties are started without waiting for that send
ConnectOkNoConfig ==
    /\ mgrPc = "connect"
    /\ ~cancelReq
    /\ ws' = "open"
    /\ sent' = << >>
    /\ mgrPc' = "gather"
    /\ StartDuties
    /\ inbound' \in SeqsUpTo(SessionMessages, MaxSessionMsgs)
    /\ UNCHANGED << segmentVars, delay, waits, leaked, cancelReq, chunk, offset,
                    sendErrorLogged, output, audio_queue, captured >>

\* websockets.connect returns a handle; connect_transcription_session goes on
\* to await ws.send(json.dumps(initial_payload))
ConnectOk ==
    /\ mgrPc = "connect"
    /\ ~cancelReq
    /\ ws' = "open"
    /\ sent' = << >>
    /\ mgrPc' = "configure"
    /\ UNCHANGED << segmentVars, delay, waits, leaked, inbound, cancelReq, sendVars,
                    recvVars, bridgePc, audio_queue, audio_source, captured >>

\* the `except Exception` of manage_streaming_with_reconnect: log, then
\* await asyncio.sleep(delay)
EnterBackoff ==
    /\ mgrPc' = "sleep"
    /\ waits' = Append(waits, delay)
    /\ delay' = delay

\* websockets.connect raises: no handle exists
ConnectRaises ==
    /\ mgrPc = "connect"
    /\ ~cancelReq
    /\ Len(waits) < MaxReconnects
    /\ EnterBackoff
    /\ UNCHANGED << segmentVars, ws, leaked, sent, inbound, cancelReq, sendVars, recvVars,
                    bridgePc, audio_queue, audio_source, captured >>

\* the configuration send returns: connect_transcription_session returns ws,
\* manage_streaming creates the queue and the three tasks and awaits
\* asyncio.gather(sending_task, receiving_task, bridge_task)
ConfigureOk ==
    /\ mgrPc = "configure"
    /\ ~cancelReq
    /\ TRUE \in SendOutcomes
    /\ sent' = Append(sent, initial_payload)
    /\ mgrPc' = "gather"
    /\ StartDuties
    /\ inbound' \in SeqsUpTo(SessionMessages, MaxSessionMsgs)
    /\ UNCHANGED << segmentVars, delay, waits, ws, leaked, cancelReq, chunk, offset,
                    sendErrorLogged, output, audio_queue, captured >>

\* the configuration send raises: the exception leaves
\* connect_transcription_session and manage_streaming, whose local `ws` is the
\* only reference to the handle; nothing closes it
ConfigureRaises ==
    /\ mgrPc = "configure"
    /\ ~cancelReq
    /\ FALSE \in SendOutcomes
    /\ Len(waits) < MaxReconnects
    /\ ws = "open" => leaked < MaxLeaked
    /\ leaked' = IF ws = "open" THEN leaked + 1 ELSE leaked
    /\ ws' = "none"
    /\ EnterBackoff
    /\ UNCHANGED << segmentVars, sent, inbound, cancelReq, sendVars, recvVars, bridgePc,
                    audio_queue, audio_source, captured >>

\* asyncio.sleep(delay) returns: the delay doubles up to max_delay and the
\* loop starts the next session
SleepDone ==
    /\ mgrPc = "sleep"
    /\ ~cancelReq
    /\ delay' = NextDelay(delay)
    /\ mgrPc' = "connect"
    /\ UNCHANGED << segmentVars, waits, ws, leaked, sent, inbound, cancelReq, sendVars,
                    recvVars, bridgePc, audio_queue, audio_source, captured >>

\* asyncio.gather has no outcome while a task is pending: it raises the first
\* exception a task raises and returns when all three have returned.  No task
\* raises an Exception (each catches it) and neither send_audio_chunks nor
\* audio_bridge returns, so the await ends by cancellation only.

-----------------------------------------------------------------------------
(* Cancellation *)

SendRunning == sendPc \in { "get", "sleep", "send" }
RecvRunning == recvPc = "iter"

BridgeNotAwaited == FALSE

\* bridge_task is pending (it is one of the awaitables of the gather)
BridgeRunning == bridgePc = "poll"

\* task.cancel() on the manager, or on a coroutine run on its own
Cancel ==
    /\ ~cancelReq
    /\ \/ mgrPc \in { "connect", "configure", "gather", "sleep" }
       \/ mgrPc = "none" /\ (SendRunning \/ RecvRunning)
    /\ cancelReq' = TRUE
    /\ UNCHANGED << segmentVars, mgrVars, ws, leaked, sent, inbound, sendVars, recvVars,
                    bridgePc, audio_queue, audio_source, captured >>

\* CancelledError is no Exception: it passes every `except Exception`.
\* Thrown into the manager at websockets.connect, ws.send or asyncio.sleep.
MgrCancelled ==
    /\ cancelReq
    /\ mgrPc \in { "connect", "configure", "sleep" }
    /\ mgrPc' = "cancelled"
    /\ UNCHANGED << segmentVars, delay, waits, ws, leaked, sent, inbound, cancelReq,
                    sendVars, recvVars, bridgePc, audio_queue, audio_source,
                    captured >>

\* the gather future cancels its children; each gets CancelledError at its await
SendCancelled ==
    /\ cancelReq
    /\ SendRunning
    /\ sendPc' = "cancelled"
    /\ UNCHANGED << segmentVars, mgrVars, ws, leaked, sent, inbound, cancelReq, chunk, offset,
                    sendErrorLogged, recvVars, bridgePc, audio_queue,
                    audio_source, captured >>

RecvCancelled ==
    /\ cancelReq
    /\ RecvRunning
    /\ recvPc' = "cancelled"
    /\ UNCHANGED << segmentVars, mgrVars, ws, leaked, sent, inbound, cancelReq, sendVars,
                    transcript, output, bridgePc, audio_queue, audio_source, captured >>

BridgeCancelled ==
    /\ cancelReq
    /\ BridgeRunning
    /\ bridgePc' = "cancelled"
    /\ UNCHANGED << segmentVars, mgrVars, ws, leaked, sent, inbound, cancelReq, sendVars,
                    recvVars, audio_queue, audio_source, captured >>

\* all children are done: the gather raises CancelledError into
\* manage_streaming, and it leaves manage_streaming_with_reconnect
GatherCancelled ==
    /\ cancelReq
    /\ mgrPc = "gather"
    /\ ~SendRunning /\ ~RecvRunning /\ ~BridgeRunning
    /\ mgrPc' = "cancelled"
    /\ UNCHANGED << segmentVars, delay, waits, ws, leaked, sent, inbound, cancelReq,
                    sendVars, recvVars, bridgePc, audio_queue, audio_source,
                    captured >>

-----------------------------------------------------------------------------
(* Environment *)

\* chunk lengths the capture callback delivers in Spec
ChunkLens == { 0, max_chunk_size }

\* enque_audio: audio_queue.put(indata.copy())
Enqueue ==
    /\ captured < MaxChunks
    /\ \E c \in ChunkLens : audio_queue' = Append(audio_queue, c)
    /\ captured' = captured + 1
    /\ UNCHANGED << segmentVars, mgrVars, ws, leaked, sent, inbound, cancelReq, sendVars,
                    recvVars, bridgePc, audio_source >>

\* the peer closes the connection or the network fails
ConnectionDrop ==
    /\ ws = "open"
    /\ ws' = "lost"
    /\ UNCHANGED << segmentVars, mgrVars, leaked, sent, inbound, cancelReq, sendVars,
                    recvVars, bridgePc, audio_queue, audio_source, captured >>

-----------------------------------------------------------------------------
(* Specifications *)

\* the voice activity code and the segment worker of main.py are not running
VadOff ==
    /\ padding_duration_ms = 0
    /\ frames = << >>
    /\ vadPc = "none"
    /\ consumed = 0
    /\ ring_buffer = << >>
    /\ triggered = FALSE
    /\ voiced_frames = << >>
    /\ yielded = << >>
    /\ vad_calls = << >>

FgOff ==
    /\ audio = 0
    /\ sample_rate = 0
    /\ fgPc = "none"
    /\ fgOffset = 0
    /\ fgFrames = << >>

IsOff ==
    /\ isPc = "none"
    /\ speech_frames = 0
    /\ classified = 0
    /\ is_speech_result = FALSE

BatchOff ==
    /\ batchPc = "none"
    /\ main_audio_queue = << >>
    /\ collected_frames = 0
    /\ segments = << >>
    /\ batches = << >>
    /\ idle_waits = 0
    /\ enqueued = << >>

ConvOff ==
    /\ convPc = "none"
    /\ sample = 0
    /\ pcm = 0

ApiOff ==
    /\ apiPc = "none"
    /\ service = << >>
    /\ attempt = 0
    /\ retry_delay = 1
    /\ api_calls = 0
    /\ api_sleeps = << >>
    /\ api_result = << >>

DevOff ==
    /\ devPc = "none"
    /\ devices = << >>
    /\ default_input_idx = 0
    /\ choice = [kind |-> "blank", value |-> 0]
    /\ device_to_use_index = 0

NoChunk == [dtype |-> "none", n |-> 0]

WireOff ==
    /\ wirePc = "none"
    /\ wire_queue = << >>
    /\ wire_source = << >>
    /\ wire_chunk = NoChunk
    /\ wire_offset = 0
    /\ wire_sent = << >>

NoBatch == [frames |-> 0, voiced |-> 0]

PipeOff ==
    /\ pipePc = "none"
    /\ vad_module = "none"
    /\ batch = NoBatch
    /\ prev_transcript = << >>
    /\ pipe_calls = << >>
    /\ pipe_done = 0

RestOff == WireOff /\ received = << >> /\ PipeOff

UnitOff == ConvOff /\ ApiOff /\ DevOff /\ RestOff

SegmentOff ==
    frame_duration_ms = 0 /\ VadOff /\ FgOff /\ IsOff /\ BatchOff /\ UnitOff

Idle ==
    /\ delay = 1
    /\ waits = << >>
    /\ leaked = 0
    /\ sent = << >>
    /\ cancelReq = FALSE
    /\ chunk = 0
    /\ offset = 0
    /\ sendErrorLogged = FALSE
    /\ transcript = << >>
    /\ output = << >>
    /\ bridgePc = "none"
    /\ audio_queue = << >>
    /\ captured = 0

\* manage_streaming_with_reconnect has run to its first await
Init ==
    /\ Idle
    /\ SegmentOff
    /\ mgrPc = "connect"
    /\ ws = "none"
    /\ inbound = << >>
    /\ sendPc = "none"
    /\ recvPc = "none"
    /\ audio_source = << >>

Next ==
    \/ ConnectOk \/ ConnectRaises \/ ConfigureOk \/ ConfigureRaises
    \/ SleepDone
    \/ SendGet \/ SendSleepDone \/ SendPartOk \/ SendPartRaises
    \/ Receive \/ RecvEnd
    \/ BridgeForward
    \/ Cancel \/ MgrCancelled \/ SendCancelled \/ RecvCancelled
    \/ BridgeCancelled \/ GatherCancelled
    \/ Enqueue \/ ConnectionDrop

Spec == Init /\ [][Next]_vars

\* The event loop runs every task that is ready: each step of the manager
\* and of the three tasks is taken once it stays enabled.  The environment
\* (peer, capture callback, operator) is under no obligation.
Fairness ==
    /\ WF_vars(ConnectOk \/ ConnectRaises)
    /\ WF_vars(ConfigureOk \/ ConfigureRaises)
    /\ WF_vars(SleepDone)
    /\ WF_vars(SendGet) /\ WF_vars(SendSleepDone)
    /\ WF_vars(SendPartOk \/ SendPartRaises)
    /\ WF_vars(Receive) /\ WF_vars(RecvEnd)
    /\ WF_vars(BridgeForward)
    /\ WF_vars(MgrCancelled) /\ WF_vars(SendCancelled)
    /\ WF_vars(RecvCancelled) /\ WF_vars(BridgeCancelled)
    /\ WF_vars(GatherCancelled)

FairSpec == Init /\ [][Next]_vars /\ Fairness

\* chunk lengths tried in SendSpec: the multiples of LenUnit and the lengths
\* next to a part boundary
SplitLens ==
    { n * LenUnit : n \in 0..MaxLenUnits }
    \cup { k * (max_chunk_size - overlap_size) + d :
             k \in 1..2, d \in { -1, 0, 1 } }
    \cup { k * (max_chunk_size - overlap_size) + overlap_size + d :
             k \in 1..2, d \in { -1, 0, 1 } }
    \cup { 1, 4000 }

\* send_audio_chunks(ws, audio_source) started on an open handle with a
\* preloaded queue
InitSend ==
    /\ Idle
    /\ SegmentOff
    /\ mgrPc = "none"
    /\ ws = "open"
    /\ inbound = << >>
    /\ sendPc = "get"
    /\ recvPc = "none"
    /\ audio_source \in SeqsUpTo(SplitLens, MaxPreload)

NextSend ==
    \/ SendGet \/ SendSleepDone \/ SendPartOk \/ SendPartRaises
    \/ ConnectionDrop \/ Cancel \/ SendCancelled

SendSpec == InitSend /\ [][NextSend]_vars

\* handle_incoming_transcriptions(ws) started on an open handle whose peer
\* delivers a script of messages
InitRecv ==
    /\ Idle
    /\ SegmentOff
    /\ mgrPc = "none"
    /\ ws = "open"
    /\ inbound \in SeqsUpTo(Messages, MaxMessages)
    /\ sendPc = "none"
    /\ recvPc = "iter"
    /\ audio_source = << >>

NextRecv ==
    \/ Receive \/ RecvEnd \/ ConnectionDrop \/ Cancel \/ RecvCancelled

RecvSpec == InitRecv /\ [][NextRecv]_vars

-----------------------------------------------------------------------------
(* Properties *)

\* handles that are open: the current one and the unreferenced ones
OpenHandles == leaked + (IF ws = "open" THEN 1 ELSE 0)

DutiesNotStarted == sendPc = "none" /\ recvPc = "none" /\ bridgePc = "none"

\* C1 (FairSpec): whenever the connection is lost or a send has raised while
\* the manager awaits the session's tasks, the manager eventually leaves the
\* session and is back at a connect attempt (unless it is cancelled).
C1_ReconnectsAfterSessionFailure ==
    (mgrPc = "gather" /\ (ws = "lost" \/ sendErrorLogged))
        ~> (mgrPc = "connect" \/ cancelReq)

\* C2: the delay is not reset while failures are contiguous (no wait is
\* shorter than the one before), and once a session has been Active with
\* success (audio accepted after the configuration) the delay is back at 1.
C2_DelayResetAfterActive ==
    /\ \A k \in 2..Len(waits) : waits[k] >= waits[k - 1]
    /\ (mgrPc = "gather" /\ Len(sent) > 1) => delay = 1

\* C3: the k-th consecutive wait is min(2^(k-1), 60) and the delay never
\* exceeds 60.
C3_BackoffSequence ==
    /\ \A k \in 1..Len(waits) : waits[k] = Min(Pow2(k - 1), 60)
    /\ delay <= 60

\* C3 witness: the seventh consecutive failure waits the capped 60.
C3_Witness ==
    mgrPc = "sleep" /\ Len(waits) >= 7 /\ waits[7] = 60 /\ waits[6] = 32

\* C4: once ws.send has raised inside send_audio_chunks, the send duty is
\* aborted (it is no longer running).
C4_SendFailureAbortsSendDuty ==
    sendErrorLogged => ~SendRunning

\* C5: a session that ended in failure has left no handle open when the
\* manager waits, and at most one handle is open at any time.
C5_HandleClosedOnFailure ==
    /\ mgrPc = "sleep" => OpenHandles = 0
    /\ OpenHandles <= 1

\* C6: once the manager has been cancelled no duty runs and no handle is open.
C6_CancelReleasesEverything ==
    mgrPc = "cancelled" =>
        /\ ~SendRunning /\ ~RecvRunning /\ ~BridgeRunning
        /\ OpenHandles = 0

\* C7: on every handle the first message sent is the configuration message
\* and it is sent once (every later message is an audio append); the duties
\* exist only on a handle whose configuration send has succeeded, and none
\* is started while the manager connects, configures or backs off.
C7_ConfigurationFirst ==
    /\ sent # << >> =>
         /\ sent[1].type = "transcription_session.update"
         /\ \A i \in 2..Len(sent) : sent[i].type = "input_audio_buffer.append"
    /\ ~DutiesNotStarted => Len(sent) >= 1
    /\ mgrPc = "gather" => Len(sent) >= 1
    /\ mgrPc \in { "connect", "configure", "sleep" } => DutiesNotStarted

\* C7 witness: after a failed configuration send, a later connection is
\* configured and carries audio.
C7_Witness ==
    /\ mgrPc = "gather" /\ leaked >= 1 /\ Len(waits) >= 1
    /\ Len(sent) >= 3 /\ sent[3].type = "input_audio_buffer.append"

\* the inner loop of send_audio_chunks has ended by its condition
\* (offset >= len(chunk)), not by the `break` of a failed send
ChunkDone == sendPc = "get" /\ chunk > 0 /\ offset >= chunk

\* the parts sent for the chunk sent last: the messages from the last one
\* that starts at offset 0
CurrentParts ==
    LET starts == { i \in 1..Len(sent) :
                      sent[i].type = AppendType /\ sent[i].off = 0 }
    IN IF starts = {} THEN << >>
       ELSE LET first == CHOOSE i \in starts : \A j \in starts : j <= i
            IN SubSeq(sent, first, Len(sent))

\* the number of offsets 0, 3584, 7168, ... below L
NumOffsetsBelow(L) == (L + 3583) \div 3584

\* the number of parts of the claim as stated: the offsets 0, 3584, ... up to
\* and including the first whose remaining slice is at most 4096 bytes
RECURSIVE StatedNumParts(_)
StatedNumParts(L) == IF L <= 4096 THEN 1 ELSE 1 + StatedNumParts(L - 3584)

\* C8 as stated: the parts of a chunk start at 0, 3584, 7168, ... and the
\* first slice of at most 4096 bytes is the last part sent.
C8_StopsAtFirstShortSlice ==
    ChunkDone =>
        /\ Len(CurrentParts) = StatedNumParts(chunk)
        /\ \A k \in 1..Len(CurrentParts) :
             /\ CurrentParts[k].off = (k - 1) * 3584
             /\ CurrentParts[k].len = Min(4096, chunk - (k - 1) * 3584)

\* C8 as amended: the parts of a chunk of length L start at every offset
\* 0, 3584, 7168, ... below L, in this order, and the part at an offset is
\* the slice of at most 4096 bytes from it; splitting stops when the next
\* offset is not below L.
C8_PartAtEveryOffsetBelowLength ==
    ChunkDone =>
        /\ Len(CurrentParts) = NumOffsetsBelow(chunk)
        /\ \A k \in 1..Len(CurrentParts) :
             /\ CurrentParts[k].off = (k - 1) * 3584
             /\ CurrentParts[k].len = Min(4096, chunk - (k - 1) * 3584)

\* C8 witness: a chunk of 4000 bytes has been sent as the parts [0, 4000)
\* and [3584, 4000).
C8_Witness ==
    /\ ChunkDone /\ chunk = 4000
    /\ CurrentParts = << AppendPayload(0, 4000), AppendPayload(3584, 416) >>

\* the step in which the receive duty handles the next frame
ReceiveStep == recvPc = "iter" /\ inbound # << >> /\ inbound' = Tail(inbound)

IsDelta(m)     == m.json = "object" /\ m.type = DeltaType
IsCompleted(m) == m.json = "object" /\ m.type = CompletedType

\* a frame that is not JSON or not an object, or whose type, delta or
\* transcript member is of the wrong type
Malformed(m) ==
    \/ m.json # "object"
    \/ m.type = "<not a string>"
    \/ IsDelta(m) /\ m.delta.kind = "nonstr"
    \/ IsCompleted(m) /\ m.transcript.kind = "nonstr"

\* C9: a delta message appends its delta member to the running transcript, a
\* completed message leaves it empty, session-created, session-updated and
\* unrecognized messages leave it unchanged, none of them ends the duty, and
\* nothing but a delta or completed message changes the running transcript.
C9_TranscriptDispatch ==
    [][ /\ ReceiveStep /\ ~Malformed(Head(inbound)) =>
            LET m == Head(inbound) IN
            /\ recvPc' = "iter"
            /\ IsDelta(m) => transcript' = transcript \o GetOrEmpty(m.delta).text
            /\ IsCompleted(m) => transcript' = << >>
            /\ ~IsDelta(m) /\ ~IsCompleted(m) => transcript' = transcript
        /\ transcript' # transcript =>
            /\ ReceiveStep
            /\ IsDelta(Head(inbound)) \/ IsCompleted(Head(inbound))
      ]_vars

\* C9 witness: a delta was appended, then a completed message printed the
\* delta followed by its own text and left the running transcript empty.
C9_Witness ==
    /\ output = << Line("Delta transcription", <<"a">>),
                   Line("Final transcription", <<"a", "b">>) >>
    /\ transcript = << >>
    /\ recvPc = "iter"

\* C10: a malformed message leaves the running transcript unchanged and the
\* duty in its loop, with the rest of the stream still to be handled.
C10_MalformedSkipped ==
    [][ ReceiveStep /\ Malformed(Head(inbound)) =>
            /\ transcript' = transcript
            /\ recvPc' = "iter"
            /\ inbound' = Tail(inbound)
      ]_vars

\* C10 witness: a malformed message was reported and skipped, and the delta
\* that followed it was appended to the running transcript.
C10_Witness ==
    /\ Len(output) = 2
    /\ output[1] = ErrorLine
    /\ output[2] = Line("Delta transcription", <<"b">>)
    /\ transcript = <<"b">>
    /\ recvPc = "iter"

-----------------------------------------------------------------------------
(* vad_collector (src/transcribe_service/vad_processing.py)                *)
(*                                                                         *)
(* The input frames are numbered 1..Len(frames) in arrival order; frame k  *)
(* is known by its number and frames[k] is the answer of                   *)
(* vad.is_speech(frame, sample_rate) for it (the speech_pattern of the     *)
(* FakeVAD of tests/test_vad_collector.py).  One iteration of the          *)
(* `for frame in frames` loop is one action.                               *)

\* input frames followed
MaxFrames == 6
\* padding durations tried: 0, 10, ..., 10 * MaxPaddingTens milliseconds
MaxPaddingTens == 9

PaddingDurations == { 10 * k : k \in 0..MaxPaddingTens }
\* the frame durations the detector supports
FrameDurations == { 10, 20, 30 }

\* the bytes of input frame k: one 16-bit sample, the bytes labelled by their
\* position in the stream
FrameBytes(k) == << 2 * k - 1, 2 * k >>

JoinNewestFirst(fs) ==
    [ p \in 1..2 * Len(fs) |->
        FrameBytes(fs[Len(fs) + 1 - ((p + 1) \div 2)])[2 - (p % 2)] ]

\* b''.join(voiced_frames)
RECURSIVE Join(_)
Join(fs) == IF fs = << >> THEN << >> ELSE FrameBytes(Head(fs)) \o Join(Tail(fs))

\* int(padding_duration_ms / frame_duration_ms): the true division is exact
\* to within the truncation for the durations tried
num_padding_frames == padding_duration_ms \div frame_duration_ms

DequeAppendUnbounded(d, x, maxlen) == Append(d, x)

\* ring_buffer.append(x) on collections.deque(maxlen=maxlen): a full deque
\* drops its oldest entry, a deque of maxlen 0 stays empty
DequeAppend(d, x, maxlen) ==
    IF maxlen = 0 THEN << >>
    ELSE IF Len(d) >= maxlen THEN Append(Tail(d), x)
    ELSE Append(d, x)

NumVoicedCountsAll(rb) == Len(rb)

\* len([f for f, speech in ring_buffer if speech])
NumVoiced(rb) == Cardinality({ i \in 1..Len(rb) : rb[i][2] })

NumUnvoicedCountsAll(rb) == Len(rb)

\* len([f for f, speech in ring_buffer if not speech])
NumUnvoiced(rb) == Cardinality({ i \in 1..Len(rb) : ~rb[i][2] })

FramesOfNewest(rb) == << rb[Len(rb)][1] >>

\* the frames of the deque, oldest first
FramesOf(rb) == [ i \in 1..Len(rb) |-> rb[i][1] ]

OverThresholdInclusive(num, maxlen) == 10 * num >= 9 * maxlen

\* num > 0.9 * ring_buffer.maxlen
OverThreshold(num, maxlen) == 10 * num > 9 * maxlen

FlushAlways(vf) == TRUE

\* `if voiced_frames:` after the loop
FlushNeeded(vf) == vf # << >>

CallClassifierTwice(calls, frame) == calls \o << frame, frame >>

\* is_speech = vad.is_speech(frame, sample_rate): the call is recorded
CallClassifier(calls, frame) == Append(calls, frame)

\* one iteration of `for frame in frames`
VadFrame ==
    /\ vadPc = "loop"
    /\ consumed < Len(frames)
    /\ LET frame     == consumed + 1
           is_speech == frames[frame]
           rb        == DequeAppend(ring_buffer, << frame, is_speech >>,
                                    num_padding_frames)
           vf        == Append(voiced_frames, frame)
       IN  /\ consumed' = frame
           /\ vad_calls' = CallClassifier(vad_calls, frame)
           /\ IF ~triggered
              THEN IF OverThreshold(NumVoiced(rb), num_padding_frames)
                   THEN /\ triggered' = TRUE
                        /\ voiced_frames' = voiced_frames \o FramesOf(rb)
                        /\ ring_buffer' = << >>
                        /\ UNCHANGED yielded
                   ELSE /\ ring_buffer' = rb
                        /\ UNCHANGED << triggered, voiced_frames, yielded >>
              ELSE IF OverThreshold(NumUnvoiced(rb), num_padding_frames)
                   THEN /\ triggered' = FALSE
                        /\ yielded' = Append(yielded, Join(vf))
                        /\ ring_buffer' = << >>
                        /\ voiced_frames' = << >>
                   ELSE /\ voiced_frames' = vf
                        /\ ring_buffer' = rb
                        /\ UNCHANGED << triggered, yielded >>
    /\ UNCHANGED << streamVars, unitVars, frame_duration_ms, padding_duration_ms,
                    frames, vadPc, fgVars, isVars, batchVars >>

VadEndNoFlush ==
    /\ vadPc = "loop"
    /\ consumed = Len(frames)
    /\ vadPc' = "done"
    /\ UNCHANGED << streamVars, unitVars, frame_duration_ms, padding_duration_ms,
                    frames, consumed, ring_buffer, triggered, voiced_frames,
                    yielded, vad_calls, fgVars, isVars, batchVars >>

\* the input is exhausted: the code after the loop
VadEnd ==
    /\ vadPc = "loop"
    /\ consumed = Len(frames)
    /\ yielded' = IF FlushNeeded(voiced_frames)
                  THEN Append(yielded, Join(voiced_frames))
                  ELSE yielded
    /\ vadPc' = "done"
    /\ UNCHANGED << streamVars, unitVars, frame_duration_ms, padding_duration_ms,
                    frames, consumed, ring_buffer, triggered, voiced_frames,
                    vad_calls, fgVars, isVars, batchVars >>

\* everything but the segment path's function under study is at rest
StreamOff ==
    /\ Idle
    /\ mgrPc = "none"
    /\ ws = "none"
    /\ inbound = << >>
    /\ sendPc = "none"
    /\ recvPc = "none"
    /\ audio_source = << >>

\* list(vad_collector(sample_rate, frame_duration_ms, padding_duration_ms,
\* vad, frames)) called on its own, as tests/test_vad_collector.py does
InitVad ==
    /\ StreamOff
    /\ UnitOff
    /\ FgOff /\ IsOff /\ BatchOff
    /\ frame_duration_ms \in FrameDurations
    /\ padding_duration_ms \in PaddingDurations
    /\ frames \in SeqsUpTo(BOOLEAN, MaxFrames)
    /\ vadPc = "loop"
    /\ consumed = 0
    /\ ring_buffer = << >>
    /\ triggered = FALSE
    /\ voiced_frames = << >>
    /\ yielded = << >>
    /\ vad_calls = << >>

NextVad == VadFrame \/ VadEnd

VadSpec == InitVad /\ [][NextVad]_vars

\* list() drives the generator until it is exhausted
FairVadSpec == VadSpec /\ WF_vars(NextVad)

-----------------------------------------------------------------------------
(* Properties of vad_collector *)

\* the input frames, in order
AllInput == [ k \in 1..Len(frames) |-> k ]

AllSpeech == \A k \in 1..Len(frames) : frames[k]
AllSilence == \A k \in 1..Len(frames) : ~frames[k]

\* C11 as stated (VadSpec): on an all-speech input at least as long as the
\* window capacity the collector yields exactly one segment, the whole
\* input, for every window capacity.
C11_AllSpeechOneSegment ==
    (vadPc = "done" /\ AllSpeech /\ Len(frames) >= num_padding_frames)
        => yielded = << Join(AllInput) >>

\* C11 as it holds (VadSpec): on an all-speech input at least as long as the
\* window capacity the collector yields exactly one segment, the whole
\* input, for every window capacity of at least one frame; with a window of
\* capacity zero it yields no segment.
C11_AllSpeechOneSegmentPositiveCapacity ==
    (vadPc = "done" /\ AllSpeech /\ Len(frames) >= num_padding_frames)
        => yielded = IF num_padding_frames >= 1 THEN << Join(AllInput) >>
                     ELSE << >>

C11_Witness ==
    /\ vadPc = "done"
    /\ AllSpeech
    /\ Len(frames) = 6
    /\ num_padding_frames = 3
    /\ yielded = << Join(<< 1, 2, 3, 4, 5, 6 >>) >>

\* C12 (VadSpec): on an all-silence input the collector yields no segment,
\* whatever the input length and the window capacity.
C12_AllSilenceNoSegment ==
    AllSilence => (yielded = << >> /\ ~triggered /\ voiced_frames = << >>)

C12_Witness ==
    /\ vadPc = "done"
    /\ AllSilence
    /\ Len(frames) = 6
    /\ num_padding_frames = 1
    /\ yielded = << >>

\* the step on which the collector triggers
TriggerStep == ~triggered /\ triggered'

\* the frames n - len + 1 .. n
Run(n, len) == [ i \in 1..len |-> n - len + i ]

IsPrefix(a, b) == Len(a) <= Len(b) /\ SubSeq(b, 1, Len(a)) = a

\* C13 (VadSpec): on the step that triggers, the voiced buffer becomes
\* exactly the window's frames in arrival order: the frames the window held
\* before plus the triggering frame, less the one evicted when the window was
\* full, so at most capacity frames ending with the triggering frame.  With
\* the pattern [F,T,T,T,F,F] and a window of 3 the first segment begins with
\* the second, third and fourth frame.
C13_TriggerDrainsWindow ==
    /\ [][TriggerStep =>
            LET len == Min(Len(ring_buffer) + 1, num_padding_frames)
            IN  /\ len >= 1
                /\ voiced_frames' = Run(consumed', len)
                /\ \A i \in 1..Len(ring_buffer) :
                      ring_buffer[i][1] = consumed - Len(ring_buffer) + i
         ]_vars
    /\ []((/\ vadPc = "done"
           /\ frames = << FALSE, TRUE, TRUE, TRUE, FALSE, FALSE >>
           /\ num_padding_frames = 3)
          => (/\ yielded # << >>
              /\ IsPrefix(Join(<< 2, 3, 4 >>), yielded[1])))

C13_Witness ==
    /\ vadPc = "done"
    /\ frames = << FALSE, TRUE, TRUE, TRUE, FALSE, FALSE >>
    /\ num_padding_frames = 3
    /\ yielded = << Join(<< 2, 3, 4, 5, 6 >>) >>

\* C14 (VadSpec): with a window of capacity zero the collector never
\* triggers and yields nothing, whatever the input and its classification.
C14_ZeroCapacityNeverTriggers ==
    num_padding_frames = 0
        => (~triggered /\ yielded = << >> /\ voiced_frames = << >>)

C14_Witness ==
    /\ vadPc = "done"
    /\ padding_duration_ms = 10
    /\ frame_duration_ms = 30
    /\ AllSpeech
    /\ Len(frames) = 6
    /\ yielded = << >>

\* C15 (VadSpec): every segment yielded, at a detrigger or by the flush at
\* the end of the input, is non-empty and holds the bytes of an input frame.
C15_NoEmptySegment ==
    \A i \in 1..Len(yielded) :
        /\ yielded[i] # << >>
        /\ \E k \in 1..Len(frames) :
             \E j \in 1..Len(yielded[i]) - 1 :
                SubSeq(yielded[i], j, j + 1) = FrameBytes(k)

C15_Witness ==
    /\ vadPc = "done"
    /\ triggered
    /\ Len(yielded) = 2
    /\ yielded[2] = Join(voiced_frames)

RECURSIVE Concat(_)
Concat(ss) == IF ss = << >> THEN << >> ELSE Head(ss) \o Concat(Tail(ss))

\* the bytes of every frame appended to the voiced buffer so far: those
\* yielded and, while the generator runs, those still in the buffer
Kept == Concat(yielded) \o (IF vadPc = "done" THEN << >> ELSE Join(voiced_frames))

\* C16 (FairVadSpec): when the input is exhausted with a non-empty voiced
\* buffer the buffer is yielded as the last segment; no frame appended to the
\* voiced buffer is ever lost or yielded twice; and the generator reaches its
\* end on every finite input.
C16_FinalFlushAndTermination ==
    /\ []((vadPc = "done" /\ voiced_frames # << >>)
          => (yielded # << >> /\ yielded[Len(yielded)] = Join(voiced_frames)))
    /\ [][IsPrefix(Kept, Kept')]_vars
    /\ [](\A i, j \in 1..Len(Kept) : i < j => Kept[i] < Kept[j])
    /\ <>(vadPc = "done")

C16_Witness ==
    /\ vadPc = "done"
    /\ triggered
    /\ frames = << TRUE, TRUE, FALSE, TRUE, TRUE, TRUE >>
    /\ num_padding_frames = 2
    /\ yielded = << Join(<< 1, 2, 3, 4, 5, 6 >>) >>

-----------------------------------------------------------------------------
(* VoiceActivityDetector.frame_generator and .is_speech                    *)
(* (src/transcribe_service/vad_processing.py)                              *)
(*                                                                         *)
(* The buffer is known by its length; a slice audio[a:b] is the pair of    *)
(* its start and its length.  One pass of the generator's for loop is one  *)
(* action.                                                                 *)

\* buffer lengths tried: 0, 80, ..., 80 * MaxAudioEighties bytes
MaxAudioEighties == 36

AudioLens == { 80 * k : k \in 0..MaxAudioEighties }
SampleRates == { 8000, 16000, 24000 }
\* values of the constructor's frame_duration_ms (it accepts any integer)
DetectorFrameDurations == { 0, 9, 10, 20, 30 }

bytes_per_sample == 2

\* The pairs (sample_rate, frame_duration_ms) tried on which the binary64
\* product sample_rate * (frame_duration_ms / 1000.0) lies below the integer
\* sample_rate * frame_duration_ms / 1000: 9 / 1000.0 is
\* 0.00899999999999999931998839741709..., and 24000 times it rounds to
\* 215.99999999999997157829056959599..., which int() truncates to 215.
\* On every other pair tried the product is the exact quotient or above it.
RoundsBelow == { << 24000, 9 >> }

\* int(sample_rate * (self.frame_duration_ms / 1000.0))
num_samples_per_frame ==
    IF << sample_rate, frame_duration_ms >> \in RoundsBelow
    THEN (sample_rate * frame_duration_ms) \div 1000 - 1
    ELSE (sample_rate * frame_duration_ms) \div 1000

frame_size == num_samples_per_frame * bytes_per_sample

\* audio[a:b]: the bytes from a up to b or the end of the buffer
Slice(a, b) == << a, Min(b, audio) - a >>

\* range(0, len(audio), frame_size) is built: a step of zero raises
\* ValueError
FgRange ==
    /\ fgPc = "start"
    /\ fgPc' = IF frame_size = 0 THEN "raised" ELSE "loop"
    /\ UNCHANGED << streamVars, unitVars, frame_duration_ms, vadVars, audio,
                    sample_rate, fgOffset, fgFrames, isVars, batchVars >>

\* the loop takes the next offset and a whole frame is left: it is yielded
FgYield ==
    /\ fgPc = "loop"
    /\ fgOffset < audio
    /\ fgOffset + frame_size <= audio
    /\ fgFrames' = Append(fgFrames, Slice(fgOffset, fgOffset + frame_size))
    /\ fgOffset' = fgOffset + frame_size
    /\ UNCHANGED << streamVars, unitVars, frame_duration_ms, vadVars, audio,
                    sample_rate, fgPc, isVars, batchVars >>

\* the loop takes the next offset and less than a frame is left: break
FgBreak ==
    /\ fgPc = "loop"
    /\ fgOffset < audio
    /\ fgOffset + frame_size > audio
    /\ fgPc' = "done"
    /\ UNCHANGED << streamVars, unitVars, frame_duration_ms, vadVars, audio,
                    sample_rate, fgOffset, fgFrames, isVars, batchVars >>

\* the range is exhausted
FgExhausted ==
    /\ fgPc = "loop"
    /\ fgOffset >= audio
    /\ fgPc' = "done"
    /\ UNCHANGED << streamVars, unitVars, frame_duration_ms, vadVars, audio,
                    sample_rate, fgOffset, fgFrames, isVars, batchVars >>

\* list(vad_detector.frame_generator(audio, sample_rate)) called on its own,
\* as tests/test_vad_frame_generator.py does
InitFrame ==
    /\ StreamOff
    /\ UnitOff
    /\ VadOff /\ IsOff /\ BatchOff
    /\ frame_duration_ms \in DetectorFrameDurations
    /\ sample_rate \in SampleRates
    /\ audio \in AudioLens
    /\ fgPc = "start"
    /\ fgOffset = 0
    /\ fgFrames = << >>

NextFrame == FgRange \/ FgYield \/ FgBreak \/ FgExhausted

FrameSpec == InitFrame /\ [][NextFrame]_vars

MajorityInclusive(speech, n) == 2 * speech >= n

\* speech_frames > len(frames) / 2
Majority(speech, n) == 2 * speech > n

\* list(self.frame_generator(audio, sample_rate)) raised: is_speech has no
\* handler, the exception leaves it
IsSpeechRaises ==
    /\ isPc = "frames"
    /\ fgPc = "raised"
    /\ isPc' = "raised"
    /\ UNCHANGED << streamVars, unitVars, frame_duration_ms, vadVars, fgVars,
                    speech_frames, classified, is_speech_result, batchVars >>

\* `if not frames: return False`
IsSpeechNoFrames ==
    /\ isPc = "frames"
    /\ fgPc = "done"
    /\ fgFrames = << >>
    /\ is_speech_result' = FALSE
    /\ isPc' = "returned"
    /\ UNCHANGED << streamVars, unitVars, frame_duration_ms, vadVars, fgVars,
                    speech_frames, classified, batchVars >>

\* one iteration of `for frame in frames`: self.vad.is_speech answers either
\* way
IsSpeechClassify ==
    /\ isPc \in { "frames", "classify" }
    /\ fgPc = "done"
    /\ classified < Len(fgFrames)
    /\ \E answer \in BOOLEAN :
          speech_frames' = speech_frames + (IF answer THEN 1 ELSE 0)
    /\ classified' = classified + 1
    /\ isPc' = "classify"
    /\ UNCHANGED << streamVars, unitVars, frame_duration_ms, vadVars, fgVars,
                    is_speech_result, batchVars >>

\* `return speech_frames > len(frames) / 2`
IsSpeechReturn ==
    /\ isPc = "classify"
    /\ classified = Len(fgFrames)
    /\ is_speech_result' = Majority(speech_frames, Len(fgFrames))
    /\ isPc' = "returned"
    /\ UNCHANGED << streamVars, unitVars, frame_duration_ms, vadVars, fgVars,
                    speech_frames, classified, batchVars >>

\* vad_detector.is_speech(audio, sample_rate) called on its own, as
\* tests/test_vad_is_speech.py does
InitIsSpeech ==
    /\ StreamOff
    /\ UnitOff
    /\ VadOff /\ BatchOff
    /\ frame_duration_ms \in DetectorFrameDurations
    /\ sample_rate \in SampleRates
    /\ audio \in AudioLens
    /\ fgPc = "start"
    /\ fgOffset = 0
    /\ fgFrames = << >>
    /\ isPc = "frames"
    /\ speech_frames = 0
    /\ classified = 0
    /\ is_speech_result = FALSE

NextIsSpeech ==
    \/ FgRange \/ FgYield \/ FgBreak \/ FgExhausted
    \/ IsSpeechRaises \/ IsSpeechNoFrames \/ IsSpeechClassify
    \/ IsSpeechReturn

IsSpeechSpec == InitIsSpeech /\ [][NextIsSpeech]_vars

-----------------------------------------------------------------------------
(* Properties of frame_generator and is_speech *)

\* the frame size as the description gives it
StatedFrameSize == ((sample_rate * frame_duration_ms) \div 1000) * 2

\* the slices of length fs at offsets 0, fs, 2 * fs, ... that fit in the buffer
WholeSlices(fs) ==
    [ i \in 1..(IF fs > 0 THEN audio \div fs ELSE 0) |-> << (i - 1) * fs, fs >> ]

\* C17 (FrameSpec): the generator ends having yielded exactly the slices of
\* length fs = floor(sample_rate * frame_duration_ms / 1000) * 2 at offsets
\* 0, fs, 2 * fs, ...: each of length fs, fewer than fs bytes left over.
C17_ConsecutiveWholeFrames ==
    fgPc \in { "done", "raised" } =>
        /\ fgPc = "done"
        /\ fgFrames = WholeSlices(StatedFrameSize)
        /\ audio - Len(fgFrames) * StatedFrameSize >= 0
        /\ audio - Len(fgFrames) * StatedFrameSize < StatedFrameSize

\* C18 (FrameSpec): the generator never raises, and a buffer shorter than one
\* frame yields nothing.
C18_NoErrorOutcome ==
    /\ fgPc # "raised"
    /\ (fgPc = "done" /\ audio < frame_size) => fgFrames = << >>

\* C19 (IsSpeechSpec): is_speech returns true exactly when strictly more than
\* half of the buffer's frames were classified as speech, and false when the
\* buffer has no frame.
C19_StrictMajority ==
    isPc = "returned" =>
        /\ classified = Len(fgFrames)
        /\ is_speech_result = (speech_frames * 2 > Len(fgFrames))
        /\ (2 * speech_frames = Len(fgFrames) => ~is_speech_result)
        /\ (fgFrames = << >> => ~is_speech_result)

\* ten frames, five of them speech: exactly half
C19_Witness ==
    /\ isPc = "returned"
    /\ Len(fgFrames) = 10
    /\ speech_frames = 5
    /\ is_speech_result = FALSE

-----------------------------------------------------------------------------
(* The collecting loop of process_audio_segment (src/main.py)              *)
(*                                                                         *)
(* A chunk is known by its number of samples, data.shape[0].  The capture  *)
(* callback enque_audio is the environment; audio_queue.get(timeout=1)     *)
(* either takes the chunk at the head of the queue or, when the queue has  *)
(* stayed empty for the second, raises queue.Empty.                        *)

\* chunks waiting in main.audio_queue
MaxQueued == 2
\* batches followed
MaxBatches == 1
\* waits that time out with nothing collected that are told apart
MaxIdleWaits == 2

SAMPLERATE == 16000
SEGMENT_SECONDS == 5

frames_per_segment == SAMPLERATE * SEGMENT_SECONDS

\* sample counts of the chunks the callback delivers
ChunkSamples == { 16000, 40000, 80000 }

BatchFullAfterFirst(n) == n > 0

\* the negation of the loop condition `collected_frames < frames_per_segment`
BatchFull(n) == ~(n < frames_per_segment)

\* enque_audio: audio_queue.put(indata.copy())
Callback ==
    /\ batchPc # "none"
    /\ Len(main_audio_queue) < MaxQueued
    /\ Len(batches) < MaxBatches
    /\ \E n \in ChunkSamples :
          /\ main_audio_queue' = Append(main_audio_queue, n)
          /\ enqueued' = Append(enqueued, n)
    /\ UNCHANGED << streamVars, unitVars, frame_duration_ms, vadVars, fgVars, isVars,
                    batchPc, collected_frames, segments, batches, idle_waits >>

CollectInFront(segs, data) == << data >> \o segs

\* segments.append(data)
Collect(segs, data) == Append(segs, data)

\* audio_queue.get(timeout=1) returns a chunk; the loop condition is then
\* evaluated again
BatchGet ==
    /\ batchPc = "collect"
    /\ main_audio_queue # << >>
    /\ LET data == Head(main_audio_queue)
       IN  /\ segments' = Collect(segments, data)
           /\ collected_frames' = collected_frames + data
           /\ batchPc' = IF BatchFull(collected_frames + data)
                         THEN "process" ELSE "collect"
    /\ main_audio_queue' = Tail(main_audio_queue)
    /\ UNCHANGED << streamVars, unitVars, frame_duration_ms, vadVars, fgVars, isVars,
                    batches, idle_waits, enqueued >>

BreakOnEveryTimeout(segs) == TRUE

\* `if segments:` in the handler of queue.Empty
BreakOnTimeout(segs) == segs # << >>

\* audio_queue.get(timeout=1) raises queue.Empty: `if segments: break`;
\* otherwise the loop waits again (the waits with nothing collected are
\* counted up to MaxIdleWaits)
BatchTimeout ==
    /\ batchPc = "collect"
    /\ main_audio_queue = << >>
    /\ batchPc' = IF BreakOnTimeout(segments) THEN "process" ELSE "collect"
    /\ idle_waits' = IF segments = << >> THEN Min(idle_waits + 1, MaxIdleWaits)
                     ELSE idle_waits
    /\ UNCHANGED << streamVars, unitVars, frame_duration_ms, vadVars, fgVars, isVars,
                    main_audio_queue, collected_frames, segments, batches,
                    enqueued >>

\* the rest of the outer loop's body: the batch is handed to the voice
\* activity code and the transcription call (or, with no chunk, the worker
\* sleeps 0.1 s), and the next batch is started
ProcessBatch ==
    /\ batchPc = "process"
    /\ batches' = IF segments # << >> THEN Append(batches, segments)
                  ELSE batches
    /\ collected_frames' = 0
    /\ segments' = << >>
    /\ batchPc' = "collect"
    /\ UNCHANGED << streamVars, unitVars, frame_duration_ms, vadVars, fgVars, isVars,
                    main_audio_queue, idle_waits, enqueued >>

\* threading.Thread(target=process_audio_segment) has started and entered
\* its loop
InitBatch ==
    /\ StreamOff
    /\ UnitOff
    /\ frame_duration_ms = 30
    /\ VadOff /\ FgOff /\ IsOff
    /\ batchPc = "collect"
    /\ main_audio_queue = << >>
    /\ collected_frames = 0
    /\ segments = << >>
    /\ batches = << >>
    /\ idle_waits = 0
    /\ enqueued = << >>

NextBatch == Callback \/ BatchGet \/ BatchTimeout \/ ProcessBatch

BatchSpec == InitBatch /\ [][NextBatch]_vars

-----------------------------------------------------------------------------
(* Properties of the collecting loop *)

RECURSIVE Sum(_)
Sum(ns) == IF ns = << >> THEN 0 ELSE Head(ns) + Sum(Tail(ns))

\* the collecting loop ends on this step
BatchEnds == batchPc = "collect" /\ batchPc' = "process"

\* C20 (BatchSpec): the collecting loop ends a batch on the step that takes
\* the cumulative sample count from below sampleRate * segmentSeconds to at
\* least that, or before that on a timed-out wait when at least one chunk has
\* been collected, the batch then being the chunks collected so far; in every
\* other case it keeps collecting.
C20_BatchEndsWhenFullOrIdle ==
    /\ [][/\ BatchEnds =>
               \/ /\ main_audio_queue # << >>
                  /\ segments' = Append(segments, Head(main_audio_queue))
                  /\ collected_frames < SAMPLERATE * SEGMENT_SECONDS
                  /\ collected_frames' >= SAMPLERATE * SEGMENT_SECONDS
               \/ /\ main_audio_queue = << >>
                  /\ segments # << >>
                  /\ segments' = segments
                  /\ collected_frames' < SAMPLERATE * SEGMENT_SECONDS
          /\ (batchPc = "collect" /\ batchPc' = "collect")
               => collected_frames' < SAMPLERATE * SEGMENT_SECONDS
          /\ (/\ batchPc = "collect"
              /\ main_audio_queue = << >>
              /\ main_audio_queue' = << >>
              /\ segments # << >>) => batchPc' = "process"
          /\ (batchPc = "process" /\ batchPc' = "collect")
               => batches' = Append(batches, segments)
         ]_vars
    /\ [](batchPc # "none" => collected_frames = Sum(segments))
    /\ [](batchPc = "collect"
            => collected_frames < SAMPLERATE * SEGMENT_SECONDS)

\* 40000 samples, then a second of silence: a batch of 40000 samples
C20_Witness ==
    /\ batches = << << 40000 >> >>
    /\ batchPc = "collect"
    /\ main_audio_queue = << >>

-----------------------------------------------------------------------------
(* Further properties of the collecting loop *)

\* C21 (BatchSpec): the collecting loop never ends with an empty batch: a
\* wait that times out with nothing collected is followed by another wait,
\* and the rest of the loop body is entered with at least one chunk.
C21_NoEmptyBatch ==
    /\ [](batchPc = "process" => (segments # << >> /\ collected_frames > 0))
    /\ [](\A i \in 1..Len(batches) : batches[i] # << >>)
    /\ [][(/\ batchPc = "collect"
           /\ segments = << >>
           /\ main_audio_queue = << >>
           /\ main_audio_queue' = << >>)
          => (batchPc' = "collect" /\ segments' = << >> /\ batches' = batches)
       ]_vars

\* two waits timed out with nothing collected, then a chunk made a batch
C21_Witness ==
    /\ idle_waits = 2
    /\ batches = << << 16000 >> >>
    /\ enqueued = << 16000 >>

-----------------------------------------------------------------------------
(* The conversion of float samples to 16-bit PCM                           *)
(* (src/main.py, process_audio_segment; the same expression is in          *)
(* audio_buffer_generator of src/streaming_transcription.py)               *)
(*                                                                         *)
(* A sample is a float32 in [-1, 1]; the samples tried are the multiples   *)
(* of 1 / SampleDenominator, a power of two, so that the float32 product   *)
(* sample * 32767 is exact.                                                *)

SampleDenominator == 64
PcmScale == 32767

Samples == (0 - SampleDenominator)..SampleDenominator

\* the quotient a / b with its fraction discarded, as the C conversion of a
\* floating-point value to an integer does
TruncDiv(a, b) == IF a >= 0 THEN a \div b ELSE 0 - ((0 - a) \div b)

\* (chunk * 32767).astype(np.int16), for one sample k / SampleDenominator:
\* astype discards the fraction; the products tried are within int16
ToInt16(k) == TruncDiv(k * PcmScale, SampleDenominator)

\* one sample of a chunk is converted
Convert ==
    /\ convPc = "start"
    /\ pcm' = ToInt16(sample)
    /\ convPc' = "done"
    /\ UNCHANGED << streamVars, vadPathVars, restVars, apiVars, devVars, sample >>

InitConv ==
    /\ StreamOff
    /\ frame_duration_ms = 0
    /\ VadOff /\ FgOff /\ IsOff /\ BatchOff
    /\ ApiOff /\ DevOff /\ RestOff
    /\ convPc = "start"
    /\ sample \in Samples
    /\ pcm = 0

NextConv == Convert

ConvSpec == InitConv /\ [][NextConv]_vars

Abs(x) == IF x >= 0 THEN x ELSE 0 - x

\* C22 (ConvSpec): the converted value is the integer nearest to
\* sample * 32767 (whichever way a tie is broken): 1.0 gives 32767, -1.0
\* gives -32767, 0.0 gives 0.
C22_RoundsToNearest ==
    convPc = "done" =>
        /\ 2 * Abs(pcm * SampleDenominator - sample * 32767) <= SampleDenominator
        /\ (sample = SampleDenominator => pcm = 32767)
        /\ (sample = 0 - SampleDenominator => pcm = 0 - 32767)
        /\ (sample = 0 => pcm = 0)

-----------------------------------------------------------------------------
(* transcribe_audio (src/transcribe_service/api_client.py)                 *)
(*                                                                         *)
(* service[i] is what the i-th call of client.audio.transcriptions.create  *)
(* does: it returns a response with a text, or it raises.                  *)

max_attempts == 3

Raises == [ok |-> FALSE, text |-> << >>]
Returns(t) == [ok |-> TRUE, text |-> t]
ServiceOutcomes == { Raises } \cup { Returns(t) : t \in Texts }

RetryDelayConstant(d) == d

\* delay *= 2
RetryDelayAfter(d) == d * 2

\* the call returns a response: `return response.text`
ApiCallOk ==
    /\ apiPc = "call"
    /\ service[api_calls + 1].ok
    /\ api_calls' = api_calls + 1
    /\ api_result' = service[api_calls + 1].text
    /\ apiPc' = "returned"
    /\ UNCHANGED << streamVars, vadPathVars, restVars, convVars, devVars, service,
                    attempt, retry_delay, api_sleeps >>

\* the call raises: the handler logs, counts the attempt and sleeps
ApiCallRaises ==
    /\ apiPc = "call"
    /\ ~service[api_calls + 1].ok
    /\ api_calls' = api_calls + 1
    /\ attempt' = attempt + 1
    /\ api_sleeps' = Append(api_sleeps, retry_delay)
    /\ apiPc' = "sleep"
    /\ UNCHANGED << streamVars, vadPathVars, restVars, convVars, devVars, service,
                    retry_delay, api_result >>

\* time.sleep(delay) returns: the delay doubles and the loop condition
\* `attempt < max_attempts` is evaluated; when it fails the function logs and
\* returns ""
ApiSleepDone ==
    /\ apiPc = "sleep"
    /\ retry_delay' = RetryDelayAfter(retry_delay)
    /\ IF attempt < max_attempts
       THEN apiPc' = "call" /\ UNCHANGED api_result
       ELSE apiPc' = "returned" /\ api_result' = << >>
    /\ UNCHANGED << streamVars, vadPathVars, restVars, convVars, devVars, service,
                    attempt, api_calls, api_sleeps >>

\* transcribe_audio(file_tuple, prompt, language) is called
InitApi ==
    /\ StreamOff
    /\ frame_duration_ms = 0
    /\ VadOff /\ FgOff /\ IsOff /\ BatchOff
    /\ ConvOff /\ DevOff /\ RestOff
    /\ apiPc = "call"
    /\ service \in [1..max_attempts -> ServiceOutcomes]
    /\ attempt = 0
    /\ retry_delay = 1
    /\ api_calls = 0
    /\ api_sleeps = << >>
    /\ api_result = << >>

NextApi == ApiCallOk \/ ApiCallRaises \/ ApiSleepDone

ApiSpec == InitApi /\ [][NextApi]_vars

\* the function is synchronous: the call returns or raises, the sleep ends
FairApiSpec == ApiSpec /\ WF_vars(NextApi)

\* the calls that succeed, by their position in the service's script
Successes == { i \in 1..Len(service) : service[i].ok }
FirstSuccess == CHOOSE i \in Successes : \A j \in Successes : i <= j

\* C23 (FairApiSpec): at most 3 calls are made; the waits after successive
\* failures are 1, 2 and 4 seconds; the function returns the text of the
\* first successful call and calls no more, or "" after 3 failures; it always
\* returns.
C23_BoundedRetry ==
    /\ [](api_calls <= 3)
    /\ [](api_sleeps = SubSeq(<< 1, 2, 4 >>, 1, Len(api_sleeps)))
    /\ [](apiPc = "returned" =>
            IF Successes # { }
            THEN /\ api_calls = FirstSuccess
                 /\ api_result = service[FirstSuccess].text
                 /\ api_sleeps = SubSeq(<< 1, 2, 4 >>, 1, FirstSuccess - 1)
            ELSE /\ api_calls = 3
                 /\ api_result = << >>
                 /\ api_sleeps = << 1, 2, 4 >>)
    /\ [][apiPc = "returned" => apiPc' = "returned"]_vars
    /\ <>(apiPc = "returned")

\* two failures, then the third call succeeds
C23_Witness ==
    /\ apiPc = "returned"
    /\ api_calls = 3
    /\ api_sleeps = << 1, 2 >>
    /\ service[3] = Returns(<< "a" >>)
    /\ api_result = << "a" >>

-----------------------------------------------------------------------------
(* handle_incoming_transcriptions on the messages of its tests             *)
(* (tests/test_streaming_transcription.py,                                 *)
(* tests/test_integration_streaming_transcription.py): JSON objects with   *)
(* the members "final" and "partial" and no "type"                         *)

\* json.dumps({"final": f, "partial": p}); data.get("type") is None
TranscriptMsg(f, p) ==
    [json |-> "object", type |-> "<absent>", delta |-> Absent,
     transcript |-> Absent, final |-> f, partial |-> p]

TranscriptMessages == { TranscriptMsg(f, p) : f \in FieldVals, p \in FieldVals }

\* handle_incoming_transcriptions(fake_ws) with a script of such messages
InitRecvFields ==
    /\ Idle
    /\ SegmentOff
    /\ mgrPc = "none"
    /\ ws = "open"
    /\ inbound \in SeqsUpTo(TranscriptMessages, MaxMessages)
    /\ sendPc = "none"
    /\ recvPc = "iter"
    /\ audio_source = << >>

RecvFieldsSpec == InitRecvFields /\ [][NextRecv]_vars

\* C24 (RecvFieldsSpec): a received message with a non-empty "final" member
\* is logged as 'Final transcript:' with its text, a message with a
\* "partial" member (and no final text) as 'Partial transcript:'.
C24_FinalAndPartialSurfaced ==
    [][(ReceiveStep /\ Len(output') = Len(output) + 1) =>
         LET m == Head(inbound)
             HasFinal == m.final.kind = "str" /\ m.final.text # << >>
             HasPartial == m.partial.kind = "str"
         IN  /\ HasFinal =>
                  output'[Len(output')] = Line("Final transcript", m.final.text)
             /\ (HasPartial /\ ~HasFinal) =>
                  output'[Len(output')].kind = "Partial transcript"
      ]_vars

-----------------------------------------------------------------------------
(* The device selection of main (src/main.py)                              *)
(*                                                                         *)
(* devices[i] tells whether the device with index i - 1 of                 *)
(* sd.query_devices() has input channels.  What the user types is blank,   *)
(* text that int() rejects, or the decimal form of an integer.             *)

\* devices listed by sd.query_devices()
MaxDevices == 3
\* integers typed: from -MaxTyped to MaxTyped
MaxTyped == 4

\* [(i, d) for i, d in enumerate(devices) if d['max_input_channels'] > 0]:
\* the original indices, in order
RECURSIVE InputIndicesFrom(_, _)
InputIndicesFrom(devs, i) ==
    IF i > Len(devs) THEN << >>
    ELSE (IF devs[i] THEN << i - 1 >> ELSE << >>) \o InputIndicesFrom(devs, i + 1)

all_input_devices == InputIndicesFrom(devices, 1)

\* reindexed_devices[new_idx][1]: new_idx counts from 0, a negative new_idx
\* counts from the end of the list, anything else raises IndexError
PyIndex(list, idx) ==
    IF idx >= 0 /\ idx < Len(list) THEN [ok |-> TRUE, value |-> list[idx + 1]]
    ELSE IF idx < 0 /\ 0 - idx <= Len(list)
    THEN [ok |-> TRUE, value |-> list[Len(list) + idx + 1]]
    ELSE [ok |-> FALSE, value |-> 0]

Blank == [kind |-> "blank", value |-> 0]
Text == [kind |-> "text", value |-> 0]
Typed(n) == [kind |-> "int", value |-> n]
Choices == { Blank, Text } \cup { Typed(n) : n \in (0 - MaxTyped)..MaxTyped }

\* the user has answered the prompt: lines 143-153
SelectDevice ==
    /\ devPc = "prompt"
    /\ device_to_use_index' =
         IF choice.kind = "blank" THEN default_input_idx
         ELSE IF choice.kind = "text" THEN default_input_idx
         ELSE LET r == PyIndex(all_input_devices, choice.value)
              IN  IF r.ok THEN r.value ELSE default_input_idx
    /\ devPc' = "selected"
    /\ UNCHANGED << streamVars, vadPathVars, restVars, convVars, apiVars, devices,
                    default_input_idx, choice >>

\* main has listed the devices and reads the user's choice
InitDev ==
    /\ StreamOff
    /\ frame_duration_ms = 0
    /\ VadOff /\ FgOff /\ IsOff /\ BatchOff
    /\ ConvOff /\ ApiOff /\ RestOff
    /\ devPc = "prompt"
    /\ devices \in SeqsUpTo(BOOLEAN, MaxDevices)
    /\ default_input_idx \in
         IF all_input_devices = << >> THEN { 0 - 1 }
         ELSE { all_input_devices[i] : i \in 1..Len(all_input_devices) }
    /\ choice \in Choices
    /\ device_to_use_index = 0

NextDev == SelectDevice

DevSpec == InitDev /\ [][NextDev]_vars

\* C25 (DevSpec): a displayed index 0..n-1 selects the device displayed
\* under it; every other answer (text, a number that is not displayed,
\* negative numbers included) selects the default input device.
C25_InvalidSelectionFallsBack ==
    devPc = "selected" =>
        device_to_use_index =
            IF /\ choice.kind = "int"
               /\ choice.value >= 0
               /\ choice.value < Len(all_input_devices)
            THEN all_input_devices[choice.value + 1]
            ELSE default_input_idx

-----------------------------------------------------------------------------
(* Further properties of the session manager *)

\* C26 (FairSpec): the manager never ends with an exception, it stops only
\* when cancelled, and every failure of a session - the connect raising, the
\* configuration send raising, a duty failing (the stream ending under the
\* receive duty, a send raising in the send duty) - is followed by a backoff
\* wait and then by a further connect attempt.
C26_EveryFailureBacksOff ==
    /\ [](mgrPc \in { "connect", "configure", "gather", "sleep", "cancelled" })
    /\ [](mgrPc = "cancelled" => cancelReq)
    /\ [][(mgrPc = "connect" /\ mgrPc' \notin { "connect", "configure", "cancelled" })
          => (mgrPc' = "sleep" /\ waits' = Append(waits, delay))]_vars
    /\ [][(mgrPc = "configure" /\ mgrPc' \notin { "configure", "gather", "cancelled" })
          => (mgrPc' = "sleep" /\ waits' = Append(waits, delay))]_vars
    /\ (mgrPc = "sleep") ~> (mgrPc = "connect" \/ cancelReq)
    /\ (mgrPc = "gather" /\ (recvPc = "returned" \/ sendErrorLogged))
          ~> (mgrPc = "sleep" \/ cancelReq)

-----------------------------------------------------------------------------
(* Further properties of vad_collector *)

\* the silence-marked frames among the frames w
SilentIn(w) == Cardinality({ i \in 1..Len(w) : ~frames[w[i]] })

\* C27 (VadSpec): on every frame taken while triggered, the frame joins the
\* voiced buffer and the window (the last at-most-capacity frames since the
\* trigger); if more than 0.9 * capacity of the window's frames are
\* silence-marked the collector detriggers, yields the whole voiced buffer
\* with that frame as one segment and leaves window and voiced buffer empty;
\* otherwise it stays triggered and yields nothing.
C27_DetriggerEmitsVoicedBuffer ==
    [][(triggered /\ consumed' = consumed + 1) =>
         LET w == Run(consumed', Min(Len(ring_buffer) + 1, num_padding_frames))
         IN  IF 10 * SilentIn(w) > 9 * num_padding_frames
             THEN /\ ~triggered'
                  /\ yielded' = Append(yielded,
                                       Join(Append(voiced_frames, consumed')))
                  /\ ring_buffer' = << >>
                  /\ voiced_frames' = << >>
             ELSE /\ triggered'
                  /\ yielded' = yielded
                  /\ voiced_frames' = Append(voiced_frames, consumed')
                  /\ Len(ring_buffer') = Len(w)
                  /\ \A i \in 1..Len(w) :
                        ring_buffer'[i] = << w[i], frames[w[i]] >>
      ]_vars

\* two speech frames trigger a window of 2, two silence frames detrigger it
C27_Witness ==
    /\ vadPc = "loop"
    /\ num_padding_frames = 2
    /\ consumed = 4
    /\ ~triggered
    /\ yielded = << Join(<< 1, 2, 3, 4 >>) >>
    /\ ring_buffer = << >>
    /\ voiced_frames = << >>

\* C28 (VadSpec): the classifier is called exactly once for each input frame,
\* in input order, in the step that takes the frame, triggered or not.
C28_ClassifiedOncePerFrame ==
    /\ [](vad_calls = Run(consumed, consumed))
    /\ [][consumed' # consumed =>
            (consumed' = consumed + 1 /\ vad_calls' = Append(vad_calls, consumed'))
       ]_vars
    /\ [][vad_calls' # vad_calls => consumed' = consumed + 1]_vars
    /\ [](vadPc = "done" => vad_calls = AllInput)

\* six frames classified, through a trigger and a detrigger
C28_Witness ==
    /\ vadPc = "done"
    /\ vad_calls = << 1, 2, 3, 4, 5, 6 >>
    /\ Len(yielded) = 1
    /\ ~triggered
    /\ num_padding_frames = 1

-----------------------------------------------------------------------------
(* Further properties of send_audio_chunks *)

\* the parts of the chunk sent last that hold byte b of it
PartsHolding(b) ==
    { k \in 1..Len(CurrentParts) :
        /\ CurrentParts[k].off <= b
        /\ b < CurrentParts[k].off + CurrentParts[k].len }

-----------------------------------------------------------------------------
(* Order and completeness of the batches *)

\* C30 (BatchSpec): the batches handed on so far, followed by the chunks of
\* the batch being collected and by the chunks still waiting in the queue,
\* are exactly the chunks the capture callback enqueued, in the order it
\* enqueued them: no chunk is lost, none is in two batches, and the order
\* inside and across batches is the arrival order; a chunk is taken from the
\* head of the queue to the end of the batch being collected, and a batch
\* is handed on whole.
C30_BatchesPreserveArrivalOrder ==
    /\ [](Concat(batches) \o segments \o main_audio_queue = enqueued)
    /\ [][/\ main_audio_queue' # main_audio_queue /\ enqueued' = enqueued
             => /\ main_audio_queue # << >>
                /\ main_audio_queue' = Tail(main_audio_queue)
                /\ segments' = Append(segments, Head(main_audio_queue))
                /\ batches' = batches
          /\ batches' # batches
             => /\ segments # << >>
                /\ batches' = Append(batches, segments)
                /\ segments' = << >>
                /\ main_audio_queue' = main_audio_queue]_vars

\* a batch of three chunks filled to five seconds, then a batch of one chunk
\* ended by a timed-out wait
C30_Witness ==
    /\ batches = << << 16000, 40000, 80000 >>, << 40000 >> >>
    /\ enqueued = << 16000, 40000, 80000, 40000 >>
    /\ segments = << >>
    /\ main_audio_queue = << >>

-----------------------------------------------------------------------------
(* The path of a captured chunk to the wire in streaming mode               *)
(* (src/streaming_transcription.py, src/transcribe_service/audio_capture.py) *)
(*                                                                         *)
(* A chunk is known by its element type and its number of samples.  The    *)
(* capture callback, audio_bridge and send_audio_chunks are followed as in *)
(* the streaming model above, here with the element type of what they      *)
(* hand on.  audio_buffer_generator, the only place of the module that     *)
(* converts a chunk to int16, has no caller.                               *)

\* chunks captured
MaxWireChunks == 3

\* sample counts of the chunks the callback delivers
WireChunkSamples == { 512, 5000 }

\* sd.InputStream is opened without a dtype: indata is a float32 array
CaptureDtype == "float32"

\* bytes of one element of a buffer
ItemBytes(dtype) == IF dtype = "float32" THEN 4 ELSE 2

\* the payload of send_audio_chunks for `part`: base64.b64encode(part) encodes
\* the buffer of the slice as it is
WirePayload(part) ==
    [type |-> AppendType, dtype |-> part.dtype,
     bytes |-> part.n * ItemBytes(part.dtype)]

\* enque_audio: audio_queue.put(indata.copy())
WireEnque ==
    /\ wirePc # "none"
    /\ Len(wire_queue) + Len(wire_source) + Len(wire_sent) < MaxWireChunks
    /\ \E n \in WireChunkSamples :
          wire_queue' = Append(wire_queue, [dtype |-> CaptureDtype, n |-> n])
    /\ UNCHANGED << streamVars, vadPathVars, convVars, apiVars, devVars,
                    received, pipeVars, wirePc, wire_source, wire_chunk, wire_offset, wire_sent >>

\* audio_bridge: item = audio_queue.get(); await audio_source.put(item)
WireBridge ==
    /\ wirePc # "none"
    /\ wire_queue # << >>
    /\ wire_source' = Append(wire_source, Head(wire_queue))
    /\ wire_queue' = Tail(wire_queue)
    /\ UNCHANGED << streamVars, vadPathVars, convVars, apiVars, devVars,
                    received, pipeVars, wirePc, wire_chunk, wire_offset, wire_sent >>

\* send_audio_chunks: chunk = await audio_source.get(); offset = 0
WireGet ==
    /\ wirePc = "get"
    /\ wire_source # << >>
    /\ wire_chunk' = Head(wire_source)
    /\ wire_source' = Tail(wire_source)
    /\ wire_offset' = 0
    /\ wirePc' = IF Head(wire_source).n = 0 THEN "get" ELSE "send"
    /\ UNCHANGED << streamVars, vadPathVars, convVars, apiVars, devVars,
                    received, pipeVars, wire_queue, wire_sent >>

\* send_audio_chunks: part = chunk[offset: offset + max_chunk_size];
\* ws.send(json.dumps(payload)) returns and the offset advances, or raises
\* and the inner loop is left
WirePart ==
    /\ wirePc = "send"
    /\ \E ok \in BOOLEAN :
          IF ok
          THEN /\ wire_sent' =
                    Append(wire_sent,
                           WirePayload([dtype |-> wire_chunk.dtype,
                                        n |-> PartLen(wire_chunk.n,
                                                      wire_offset)]))
               /\ wire_offset' = Advance(wire_offset)
               /\ wirePc' = IF Advance(wire_offset) < wire_chunk.n
                            THEN "send" ELSE "get"
          ELSE /\ wirePc' = "get"
               /\ UNCHANGED << wire_sent, wire_offset >>
    /\ UNCHANGED << streamVars, vadPathVars, convVars, apiVars, devVars,
                    received, pipeVars, wire_queue, wire_source, wire_chunk >>

\* manage_streaming has created the queue and the bridge and send tasks
InitWire ==
    /\ StreamOff
    /\ frame_duration_ms = 0
    /\ VadOff /\ FgOff /\ IsOff /\ BatchOff
    /\ ConvOff /\ ApiOff /\ DevOff
    /\ wirePc = "get"
    /\ wire_queue = << >>
    /\ wire_source = << >>
    /\ wire_chunk = NoChunk
    /\ wire_offset = 0
    /\ wire_sent = << >>
    /\ received = << >>
    /\ PipeOff

NextWire == WireEnque \/ WireBridge \/ WireGet \/ WirePart

WireSpec == InitWire /\ [][NextWire]_vars

\* C31 (WireSpec): every input_audio_buffer.append message carries 16-bit
\* PCM data, and every chunk that has passed the bridge, waiting for the send
\* duty or being split by it, is an int16 buffer.
C31_AppendCarriesPcm16 ==
    /\ \A i \in 1..Len(wire_sent) :
          wire_sent[i].type = AppendType => wire_sent[i].dtype = "int16"
    /\ \A i \in 1..Len(wire_source) : wire_source[i].dtype = "int16"
    /\ wirePc = "send" => wire_chunk.dtype = "int16"

-----------------------------------------------------------------------------
(* The yielded segments as runs of the input *)

\* the bytes of the input frames i..j, in order
RunBytes(i, j) == [ p \in 1..2 * (j - i + 1) |-> 2 * (i - 1) + p ]

\* C32 (VadSpec): every segment yielded so far is the concatenation of the
\* input frames i..j for some i <= j among the frames consumed, each frame
\* once and in input order, and a later segment starts strictly after the
\* end of the one before it, so that no frame is in two segments.
C32_SegmentsAreDisjointRuns ==
    /\ \A s \in 1..Len(yielded) :
          \E i \in 1..consumed : \E j \in i..consumed :
             yielded[s] = RunBytes(i, j)
    /\ \A s \in 1..Len(yielded) - 1 :
          /\ yielded[s] # << >>
          /\ yielded[s + 1] # << >>
          /\ yielded[s][Len(yielded[s])] < yielded[s + 1][1]

\* frames speech, silence, silence, speech with a window of one frame: the
\* segments are frames 1..2 and frame 4, frame 3 being in neither
C32_Witness ==
    /\ vadPc = "done"
    /\ frames = << TRUE, FALSE, FALSE, TRUE >>
    /\ num_padding_frames = 1
    /\ yielded = << << 1, 2, 3, 4 >>, << 7, 8 >> >>

-----------------------------------------------------------------------------
(* The tasks of a session *)

\* a send, receive or bridge task exists and has not finished
SomeDutyPending ==
    \/ sendPc \in { "get", "sleep", "send" }
    \/ recvPc = "iter"
    \/ bridgePc = "poll"

-----------------------------------------------------------------------------
(* handle_incoming_transcriptions on a stream of delta and completed       *)
(* messages                                                                *)

\* messages of a script
MaxTextMessages == 4

\* delta and completed messages with and without a text, and a frame that is
\* not JSON
TextMessages ==
    { Object(DeltaType, Str(<<"a">>), Absent),
      Object(DeltaType, Str(<<"b">>), Absent),
      Object(DeltaType, NonString, Absent),
      Object(CompletedType, Absent, Str(<<"b">>)),
      Object(CompletedType, Absent, Absent),
      Object(CompletedType, Absent, NonString),
      InvalidJson }

\* handle_incoming_transcriptions(ws) on a script of such messages
InitRecvText ==
    /\ Idle
    /\ SegmentOff
    /\ mgrPc = "none"
    /\ ws = "open"
    /\ inbound \in SeqsUpTo(TextMessages, MaxTextMessages)
    /\ sendPc = "none"
    /\ recvPc = "iter"
    /\ audio_source = << >>

RecvTextSpec == InitRecvText /\ [][NextRecv]_vars

\* the texts of the delta members of the delta messages of ms, concatenated
\* (a delta member that is not a string has no text)
RECURSIVE DeltaText(_)
DeltaText(ms) ==
    IF ms = << >> THEN << >>
    ELSE (IF IsDelta(Head(ms)) /\ Head(ms).delta.kind = "str"
          THEN Head(ms).delta.text ELSE << >>) \o DeltaText(Tail(ms))

\* the messages of ms after its last message that satisfies Ends
SinceLast(ms, Ends(_)) ==
    LET ends == { i \in 1..Len(ms) : Ends(ms[i]) }
        last == IF ends = {} THEN 0
                ELSE CHOOSE i \in ends : \A j \in ends : j <= i
    IN  SubSeq(ms, last + 1, Len(ms))

\* a completed message whose transcript member is absent or a string
CompletedWithText(m) == IsCompleted(m) /\ m.transcript.kind # "nonstr"

\* the step handles a completed message and prints a final transcription
SurfacesFinal ==
    /\ ReceiveStep
    /\ IsCompleted(Head(inbound))
    /\ Len(output') = Len(output) + 1
    /\ output'[Len(output')].kind = "Final transcription"

\* C34 as stated (RecvTextSpec): the final text printed on a completed
\* message is the deltas received since the previous completed message, of
\* whatever form, followed by the message's transcript member.
C34_FinalIsDeltasSinceCompleted ==
    [][SurfacesFinal =>
         output'[Len(output')].text =
             DeltaText(SinceLast(received, IsCompleted))
             \o GetOrEmpty(Head(inbound).transcript).text]_vars

\* C34 (RecvTextSpec): a completed message whose transcript member is
\* absent or a string prints as final text the string deltas received since
\* the previous such completed message (or since the duty started) followed
\* by its transcript member; a completed message whose transcript member is
\* not a string prints no final text and does not end the run of deltas.
C34_FinalIsDeltasSinceSurfaced ==
    [][/\ SurfacesFinal =>
            output'[Len(output')].text =
                DeltaText(SinceLast(received, CompletedWithText))
                \o GetOrEmpty(Head(inbound).transcript).text
       /\ (ReceiveStep /\ IsCompleted(Head(inbound)))
            => (SurfacesFinal <=> CompletedWithText(Head(inbound)))]_vars

\* two deltas after a final text, then a completed message: the second
\* final text is the two deltas and the message's own text
C34_Witness ==
    /\ received = << Object(CompletedType, Absent, Absent),
                     Object(DeltaType, Str(<<"a">>), Absent),
                     Object(DeltaType, Str(<<"b">>), Absent),
                     Object(CompletedType, Absent, Str(<<"b">>)) >>
    /\ output[4] = Line("Final transcription", << "a", "b", "b" >>)
    /\ transcript = << >>

-----------------------------------------------------------------------------
(* process_audio_segment after its collecting loop (src/main.py)           *)
(*                                                                         *)
(* A batch is known by the number of frames frame_generator cuts from it   *)
(* and the number of segments vad_collector yields for those frames.       *)
(* main.py names the collector as vad.vad_collector.  `import vad` is      *)
(* bound to the first vad.py on sys.path: src/vad.py, next to main.py,     *)
(* which defines VoiceActivityDetector only, when main.py is run as a      *)
(* script; src/transcribe_service/vad.py, which defines vad_collector too, *)
(* when that directory comes first.                                        *)

\* batches followed
MaxPipeBatches == 3
\* frames of a batch told apart
MaxBatchFrames == 2
\* segments of a batch told apart
MaxBatchVoiced == 2

VadModules == { "src/vad.py", "src/transcribe_service/vad.py" }

\* hasattr(vad, "vad_collector")
HasCollector(module) == module = "src/transcribe_service/vad.py"

\* a batch: vad_collector yields nothing for no frames
Batches ==
    { [frames |-> f, voiced |-> v] :
        f \in 0..MaxBatchFrames, v \in 0..MaxBatchVoiced } \
    { [frames |-> 0, voiced |-> v] : v \in 1..MaxBatchVoiced }

\* texts the service returns
PipeTexts == { << "a" >>, << "b" >> }

\* the collecting loop has ended with chunks in `segments`; they are
\* converted and joined and frame_generator is run on the bytes
PipeCollect ==
    /\ pipePc = "collect"
    /\ pipe_done < MaxPipeBatches
    /\ batch' \in Batches
    /\ pipe_done' = pipe_done + 1
    /\ pipePc' = "frames"
    /\ UNCHANGED << streamVars, vadPathVars, convVars, apiVars, devVars,
                    wireVars, received, vad_module, prev_transcript,
                    pipe_calls >>

\* `if not frames:` print and continue
PipeNoFrames ==
    /\ pipePc = "frames"
    /\ batch.frames = 0
    /\ pipePc' = "collect"
    /\ UNCHANGED << streamVars, vadPathVars, convVars, apiVars, devVars,
                    wireVars, received, vad_module, batch, prev_transcript,
                    pipe_calls, pipe_done >>

\* vad.vad_collector is evaluated in a module without that name:
\* AttributeError, which nothing in process_audio_segment catches, ends the
\* worker thread
PipeCollectorMissing ==
    /\ pipePc = "frames"
    /\ batch.frames > 0
    /\ ~HasCollector(vad_module)
    /\ pipePc' = "died"
    /\ UNCHANGED << streamVars, vadPathVars, convVars, apiVars, devVars,
                    wireVars, received, vad_module, batch, prev_transcript,
                    pipe_calls, pipe_done >>

\* `if not padded_voiced_segments:` print and continue
PipeSilence ==
    /\ pipePc = "frames"
    /\ batch.frames > 0
    /\ HasCollector(vad_module)
    /\ batch.voiced = 0
    /\ pipePc' = "collect"
    /\ UNCHANGED << streamVars, vadPathVars, convVars, apiVars, devVars,
                    wireVars, received, vad_module, batch, prev_transcript,
                    pipe_calls, pipe_done >>

\* a transcription call for the batch at hand, with the previous transcript
\* its prompt carries
PipeCall(outcome) ==
    [batch |-> batch, prev |-> prev_transcript, outcome |-> outcome]

\* the voiced audio is written to a WAV buffer and
\* client.audio.transcriptions.create returns: prev_transcript =
\* response.text
PipeCallOk ==
    /\ pipePc = "frames"
    /\ batch.frames > 0
    /\ HasCollector(vad_module)
    /\ batch.voiced > 0
    /\ \E t \in PipeTexts :
          /\ prev_transcript' = t
          /\ pipe_calls' = Append(pipe_calls, PipeCall("returned"))
    /\ pipePc' = "collect"
    /\ UNCHANGED << streamVars, vadPathVars, convVars, apiVars, devVars,
                    wireVars, received, vad_module, batch, pipe_done >>

\* the call raises: `except Exception` prints the error
PipeCallRaises ==
    /\ pipePc = "frames"
    /\ batch.frames > 0
    /\ HasCollector(vad_module)
    /\ batch.voiced > 0
    /\ pipe_calls' = Append(pipe_calls, PipeCall("raised"))
    /\ pipePc' = "collect"
    /\ UNCHANGED << streamVars, vadPathVars, convVars, apiVars, devVars,
                    wireVars, received, vad_module, batch, prev_transcript,
                    pipe_done >>

\* the worker thread has entered its loop
InitPipe ==
    /\ StreamOff
    /\ frame_duration_ms = 0
    /\ VadOff /\ FgOff /\ IsOff /\ BatchOff
    /\ ConvOff /\ ApiOff /\ DevOff
    /\ WireOff
    /\ received = << >>
    /\ pipePc = "collect"
    /\ vad_module \in VadModules
    /\ batch = NoBatch
    /\ prev_transcript = << >>
    /\ pipe_calls = << >>
    /\ pipe_done = 0

NextPipe ==
    \/ PipeCollect \/ PipeNoFrames \/ PipeCollectorMissing \/ PipeSilence
    \/ PipeCallOk \/ PipeCallRaises

PipeSpec == InitPipe /\ [][NextPipe]_vars

\* the worker has dealt with the batch at hand on this step
BatchHandled == pipePc = "frames" /\ pipePc' # "frames"

\* C35 (PipeSpec): a transcription call is made only for a batch with at
\* least one voiced segment; a batch with no frames or no voiced segment
\* causes no call and leaves prev_transcript unchanged, a call that fails
\* leaves it unchanged, and in each of these cases the worker goes on to
\* collect the next batch.
C35_CallOnlyForVoicedBatch ==
    [][BatchHandled =>
         /\ pipe_calls' # pipe_calls =>
              /\ batch.voiced >= 1
              /\ pipe_calls' = Append(pipe_calls, pipe_calls'[Len(pipe_calls')])
              /\ pipe_calls'[Len(pipe_calls')].batch = batch
         /\ (batch.frames = 0 \/ batch.voiced = 0) =>
              /\ pipe_calls' = pipe_calls
              /\ prev_transcript' = prev_transcript
              /\ pipePc' = "collect"
         /\ (/\ pipe_calls' # pipe_calls
             /\ pipe_calls'[Len(pipe_calls')].outcome = "raised") =>
              /\ prev_transcript' = prev_transcript
              /\ pipePc' = "collect"]_vars

=============================================================================
